---- MODULE Spec2Model ----
(***************************************************************************)
(* TableEnv (temporal_policies/envs/pybullet/table_env.py): the state      *)
(* cache, reset()'s retry loop, step() and wait_until_stable, as a state   *)
(* machine.  The physics engine, the robot, the primitives and the         *)
(* predicates are external collaborators: the engine's scene is abstracted *)
(* to the pose class of the one non-static object, and what the            *)
(* collaborators decide (sample(), execute(), stepSimulation) is drawn     *)
(* nondeterministically.  The objects' twist is read only by               *)
(* wait_until_stable, and only after it has stepped the engine, so it is   *)
(* kept as what the last engine step left, not as part of a saved scene.   *)
(***************************************************************************)
EXTENDS Integers, Sequences, FiniteSets, TLC

(***************************************************************************)
(* Bounds of the model.                                                    *)
(***************************************************************************)
\* most snapshots taken between two resets
MaxStates == 2
\* largest min_iters / max_iters; also stands for the default max_iters,
\* int(3.0 / math.PYBULLET_TIMESTEP)
MaxIters == 2
\* largest max_attempts argument of reset() (the default is 10)
MaxAttempts == 2
\* most objects in the registry
MaxObjects == 5
\* Most frames a recording channel's buffer holds in the model.
MaxFrames == 2
\* Longest list of policy arguments given to get_arg_indices.
MaxArgs == 4
\* Largest max_episode_steps a Box2D environment is constructed with.
MaxEpisodeSteps == 3

(***************************************************************************)
(* Program constants.                                                      *)
(***************************************************************************)
MAX_NUM_OBJECTS == 5
EE_OBSERVATION_IDX == 0

(***************************************************************************)
(* Configuration: the object registry and the task list.                   *)
(***************************************************************************)
\* self._objects in registry order; the table is the static support.
objects == <<"table", "hook">>

is_static(obj) == obj = "table"

\* self._tasks: action skeletons and initial states.
tasks ==
  << [action_skeleton |-> <<"pick(hook)", "place(hook, table)">>,
      initial_state   |-> <<"inworkspace(hook)", "on(hook, table)">>],
     [action_skeleton |-> <<"place(hook, table)">>,
      initial_state   |-> << >>] >>

\* The construction arguments that select code paths: whether an object
\* tracker is configured and whether the arm is real.real.arm.Arm.
Configs == [tracker : BOOLEAN, real : BOOLEAN]

(***************************************************************************)
(* The engine's scene.  pose is where the hook lies.                       *)
(***************************************************************************)
\* Where the hook rests: on the table inside the workspace, on the table
\* outside the workspace, under the table plane, or against the robot base.
Poses == {"table", "edge", "floor", "base"}

Scenes == [pose : Poses]

\* The scene the constructor saves as the pristine snapshot.
InitScene == [pose |-> "table"]

\* The engine's snapshot ids; p.saveState returns one that is not in use.
StateIds == 0 .. MaxStates

\* predicates.is_below_table(obj.pose().pos)
is_below_table(obj, scene) == obj = "hook" /\ scene.pose = "floor"

\* predicates.is_touching(robot.body_id, obj.body_id, link_id_a=0): the
\* robot base is mounted on the table, so the table always touches it.
is_touching(obj, scene) == obj = "table" \/ scene.pose = "base"

\* predicates.is_moving(obj.twist()), with twist whether the hook's twist
\* is above the threshold.
is_moving(obj, twist) == obj = "hook" /\ twist

\* Predicate.value: a geometric check of the scene.
Value(prop, scene) ==
  CASE prop = "on(hook, table)"   -> scene.pose \in {"table", "edge"}
    [] prop = "inworkspace(hook)" -> scene.pose \in {"table", "base"}
    [] OTHER                      -> FALSE

(***************************************************************************)
(* State.                                                                  *)
(***************************************************************************)
VARIABLES
  config,        \* construction arguments (never change)
  phys,          \* the engine's current scene
  moving,        \* the hook's twist after the last step of wait_until_stable
  grasp,         \* robot auxiliary state: a grasp constraint is held
  saved,         \* engine side: snapshot id -> saved scene
  states,        \* self._states: snapshot id -> robot.get_state() blob
  task,          \* self._task, an index into tasks
  primitive,     \* self._primitive, an action call
  pc,            \* where control is: idle, or inside reset / wait_until_stable
  op,            \* the public call in progress, or the last one finished
  arg,           \* its handle argument (set_state)
  max_attempts,  \* reset's argument
  sampled,       \* reset: predicates sampled successfully in this attempt
  num_iters,     \* wait_until_stable's counter
  min_iters,     \* wait_until_stable's argument
  max_iters,     \* wait_until_stable's argument
  result,        \* step: the Result primitive.execute returned
  ret,           \* what the last call returned or raised
  trace,         \* the collaborator calls made by the last step of the model
  taken,         \* history: handle -> observation, scene and robot state at get_state
  registry,      \* self._objects in order: each object's state vector
  ee_pose,       \* the end-effector's state vector
  recorder,      \* self._recorder, the fixed-frequency recording channel
  timelapse,     \* self._timelapse, the timelapse recording channel
  mode,          \* the mode argument of the last recording call
  steps,         \* Box2DBase.steps, the episode's step counter
  max_episode_steps, \* Box2DBase._max_episode_steps
  world,         \* what _is_valid and _is_done read off the Box2D world
  agent,         \* PushLeft2D.agent is set (it is None until _setup_spaces)
  kth            \* history: PushLeft2D.step calls since the last reset()

envVars == <<phys, moving, grasp, saved, states, task, primitive, result, ret, trace>>
ctlVars == <<pc, op, arg, max_attempts, sampled, num_iters, min_iters, max_iters>>
obsVars == <<registry, ee_pose>>
recVars == <<recorder, timelapse, mode>>
boxVars == <<steps, max_episode_steps, world, agent, kth>>
vars == <<config, envVars, ctlVars, taken, obsVars, recVars, boxVars>>

(***************************************************************************)
(* Helpers for dictionaries and return values.                             *)
(***************************************************************************)
EmptyDict == [k \in {} |-> 0]

Put(f, k, v) == [x \in DOMAIN f \cup {k} |-> IF x = k THEN v ELSE f[x]]

Drop(f, k) == [x \in DOMAIN f \ {k} |-> f[x]]

NoObs == << >>

NoResult == [success |-> FALSE, truncated |-> FALSE]

NoRet == [n |-> 0, obs |-> NoObs, reward |-> 0, terminated |-> FALSE,
          truncated |-> FALSE, flag |-> FALSE, err |-> "none"]

\* The mutable environment as one value, threaded through a handler's calls.
Cur == [phys |-> phys, moving |-> moving, grasp |-> grasp, saved |-> saved, states |-> states,
        task |-> task, primitive |-> primitive, result |-> NoResult,
        ret |-> NoRet, trace |-> << >>]

Commit(e) ==
  /\ phys' = e.phys
  /\ moving' = e.moving
  /\ grasp' = e.grasp
  /\ saved' = e.saved
  /\ states' = e.states
  /\ task' = e.task
  /\ primitive' = e.primitive
  /\ result' = e.result
  /\ ret' = e.ret
  /\ trace' = e.trace

\* A collaborator call is logged with its argument.
Call(e, name, a) ==
  [e EXCEPT !.trace = Append(@, [call |-> name, arg |-> a, held |-> FALSE])]

\* A call on the grasp constraint or the engine's scene is logged with
\* whether a grasp constraint is in place when it is made.
CallHeld(e, name, a, held) ==
  [e EXCEPT !.trace = Append(@, [call |-> name, arg |-> a, held |-> held])]

Return(e, r) == [e EXCEPT !.ret = r]

(***************************************************************************)
(* The physics engine and the robot, as far as TableEnv uses them.         *)
(***************************************************************************)
\* p.saveState: the scene is saved under id.
p_saveState(e, id) ==
  Call([e EXCEPT !.saved = Put(@, id, e.phys)], "saveState", id)

\* p.removeState: the engine releases the saved scene.
p_removeState(e, id) ==
  Call([e EXCEPT !.saved = Drop(@, id)], "removeState", id)

\* p.restoreState of a valid id.  Constraints are not part of a saved state:
\* with a grasp constraint still in place the object stays tied to the
\* gripper, so it is not put back where the saved scene has it.
p_restoreState(e, id) ==
  CallHeld([e EXCEPT !.phys = IF e.grasp THEN e.phys ELSE e.saved[id]],
           "restoreState", id, e.grasp)

\* robot.gripper.remove_grasp_constraint()
remove_grasp_constraint(e) ==
  CallHeld([e EXCEPT !.grasp = FALSE], "remove_grasp_constraint", 0, e.grasp)

\* robot.get_state()
robot_get_state(e) == [grasp |-> e.grasp]

\* robot.set_state(blob)
robot_set_state(e, blob) ==
  Call([e EXCEPT !.grasp = blob.grasp], "robot.set_state", 0)

\* robot.reset()
robot_reset(e) == Call([e EXCEPT !.grasp = FALSE], "robot.reset", 0)

(***************************************************************************)
(* Observations.                                                           *)
(***************************************************************************)
\* ObjectState.vector, abstracted to a nonzero code.
StateVector(name, scene) ==
  CASE name = "TableEnv.robot.arm.ee_pose" -> 5
    [] name = "table"                      -> 4
    [] name = "hook" /\ scene.pose = "table" -> 1
    [] name = "hook" /\ scene.pose = "floor" -> 2
    [] name = "hook" /\ scene.pose = "edge"  -> 6
    [] OTHER                               -> 3

\* TableEnv.object_states: the end-effector first, then the registry.
object_states(scene) ==
  [i \in 1 .. Len(objects) + 1 |->
     IF i = EE_OBSERVATION_IDX + 1
       THEN StateVector("TableEnv.robot.arm.ee_pose", scene)
       ELSE StateVector(objects[i - 1], scene)]

\* TableEnv.get_observation: rows 0 .. MAX_NUM_OBJECTS-1 (here 1-based).
get_observation(scene) ==
  LET os == object_states(scene)
  IN  [i \in 1 .. MAX_NUM_OBJECTS |-> IF i <= Len(os) THEN os[i] ELSE 0]

(***************************************************************************)
(* get_state / set_state.                                                  *)
(***************************************************************************)
\* The id p.saveState returns: one the engine does not hold.  The ids are
\* interchangeable handles, so the least free one stands for any of them.
FreeIds(held) ==
  {i \in StateIds \ DOMAIN held : \A j \in StateIds \ DOMAIN held : i <= j}

\* TableEnv.get_state, with id the id p.saveState returns.
get_state_body(e, id) ==
  LET e1 == p_saveState(e, id)
      e2 == [e1 EXCEPT !.states = Put(@, id, robot_get_state(e1))]
  IN  Return(e2, [NoRet EXCEPT !.n = id])

\* set_state restoring before it releases the grasp constraint.
set_state_late_release(e, state_id) ==
  LET e1 == p_restoreState(e, state_id)
      e2 == remove_grasp_constraint(e1)
      e3 == robot_set_state(e2, e2.states[state_id])
  IN  IF state_id \notin DOMAIN e.saved
        THEN Return(CallHeld(e, "restoreState", state_id, e.grasp),
                    [NoRet EXCEPT !.err = "pybullet.error"])
      ELSE IF state_id \notin DOMAIN e2.states
        THEN Return(e2, [NoRet EXCEPT !.err = "KeyError"])
      ELSE Return(e3, [NoRet EXCEPT !.n = 1])

\* set_state that never releases the grasp constraint.
set_state_no_release(e, state_id) ==
  LET e2 == p_restoreState(e, state_id)
      e3 == robot_set_state(e2, e2.states[state_id])
  IN  IF state_id \notin DOMAIN e.saved
        THEN Return(CallHeld(e, "restoreState", state_id, e.grasp),
                    [NoRet EXCEPT !.err = "pybullet.error"])
      ELSE IF state_id \notin DOMAIN e2.states
        THEN Return(e2, [NoRet EXCEPT !.err = "KeyError"])
      ELSE Return(e3, [NoRet EXCEPT !.n = 1])

\* set_state dropping the handle it restored from the cache.
set_state_consumes(e, state_id) ==
  LET e1 == remove_grasp_constraint(e)
      e2 == p_restoreState(e1, state_id)
      e3 == robot_set_state(e2, e2.states[state_id])
  IN  IF state_id \notin DOMAIN e1.saved
        THEN Return(CallHeld(e1, "restoreState", state_id, e1.grasp),
                    [NoRet EXCEPT !.err = "pybullet.error"])
      ELSE IF state_id \notin DOMAIN e2.states
        THEN Return(e2, [NoRet EXCEPT !.err = "KeyError"])
      ELSE Return([e3 EXCEPT !.states = Drop(@, state_id)],
                  [NoRet EXCEPT !.n = 1])

\* set_state looking the handle up before it touches the gripper or the
\* engine.
set_state_checks_first(e, state_id) ==
  LET e1 == remove_grasp_constraint(e)
      e2 == p_restoreState(e1, state_id)
      e3 == robot_set_state(e2, e2.states[state_id])
  IN  IF state_id \notin DOMAIN e.states
        THEN Return(e, [NoRet EXCEPT !.err = "KeyError"])
      ELSE Return(e3, [NoRet EXCEPT !.n = 1])

\* TableEnv.set_state.  An id the engine does not hold makes p.restoreState
\* raise; an id missing from self._states makes the lookup raise KeyError.
set_state_body(e, state_id) ==
  LET e1 == remove_grasp_constraint(e)
      e2 == p_restoreState(e1, state_id)
      e3 == robot_set_state(e2, e2.states[state_id])
  IN  IF state_id \notin DOMAIN e1.saved
        THEN Return(CallHeld(e1, "restoreState", state_id, e1.grasp),
                    [NoRet EXCEPT !.err = "pybullet.error"])
      ELSE IF state_id \notin DOMAIN e2.states
        THEN Return(e2, [NoRet EXCEPT !.err = "KeyError"])
      ELSE Return(e3, [NoRet EXCEPT !.n = 1])

get_state ==
  /\ pc = "idle"
  /\ Cardinality(DOMAIN states) < MaxStates
  /\ \E id \in FreeIds(saved) :
       /\ Commit(get_state_body(Cur, id))
       /\ taken' = Put(taken, id, [obs |-> get_observation(phys),
                                   phys |-> phys,
                                   robot |-> robot_get_state(Cur)])
  /\ op' = "get_state"
  /\ arg' = 0
  /\ sampled' = {}
  /\ UNCHANGED <<obsVars, recVars, boxVars, config, pc, max_attempts, num_iters, min_iters,
                 max_iters>>

set_state ==
  /\ pc = "idle"
  /\ \E state_id \in StateIds :
       /\ Commit(set_state_body(Cur, state_id))
       /\ arg' = state_id
  /\ op' = "set_state"
  /\ sampled' = {}
  /\ UNCHANGED <<obsVars, recVars, boxVars, config, pc, max_attempts, num_iters, min_iters, max_iters,
                 taken>>

(***************************************************************************)
(* A recording channel (recording.Recorder): whether it is recording, the  *)
(* frames in its buffer and whether it holds a finished recording.         *)
(***************************************************************************)
NewRecorder == [recording |-> FALSE, frames |-> 0, stored |-> FALSE]

\* Recorder.is_recording
Recorder_is_recording(ch) == ch.recording

\* Recorder.start: a new, empty buffer.
Recorder_start(ch) == [ch EXCEPT !.recording = TRUE, !.frames = 0]

\* Recorder.stop: true, keeping the buffer as a finished recording, if the
\* channel was recording; false otherwise.
Recorder_stop(ch) ==
  IF ch.recording
    THEN [ch |-> [ch EXCEPT !.recording = FALSE, !.frames = 0, !.stored = TRUE],
          ok |-> TRUE]
  ELSE [ch |-> ch, ok |-> FALSE]

\* Recorder.save(path, reset): whether a finished recording was written
\* (wrote: the writing produced a file); reset drops the finished recordings.
Recorder_save(ch, reset, wrote) ==
  [ch |-> IF reset THEN [ch EXCEPT !.stored = FALSE] ELSE ch,
   ok |-> ch.stored /\ wrote]

\* Recorder.add_frame: a recording channel takes the frame it is offered.
Recorder_add_frame(ch) ==
  IF ch.recording THEN [ch EXCEPT !.frames = @ + 1] ELSE ch

\* The buffer has room for k more frames.
FramesFit(ch, k) == ch.recording => ch.frames + k <= MaxFrames

(***************************************************************************)
(* The physical-validity checks and wait_until_stable.                     *)
(***************************************************************************)
\* TableEnv._is_any_object_below_table
is_any_object_below_table(scene) ==
  \E i \in 1 .. Len(objects) :
    ~is_static(objects[i]) /\ is_below_table(objects[i], scene)

\* TableEnv._is_any_object_touching_base
is_any_object_touching_base(scene) ==
  \E i \in 1 .. Len(objects) :
    ~is_static(objects[i]) /\ is_touching(objects[i], scene)

\* is_any_object_moving, local to wait_until_stable
is_any_object_moving(twist) ==
  \E i \in 1 .. Len(objects) :
    ~is_static(objects[i]) /\ is_moving(objects[i], twist)

\* The while condition without its "num_iters == 0" disjunct.
WaitCond_no_first(n, lo, hi, scene, twist) ==
  /\ n < hi
  /\ (n < lo \/ is_any_object_moving(twist))
  /\ ~is_any_object_below_table(scene)
  /\ ~is_any_object_touching_base(scene)

\* The while condition with the budget test off by one.
WaitCond_off_by_one(n, lo, hi, scene, twist) ==
  \/ n = 0
  \/ /\ n <= hi
     /\ (n < lo \/ is_any_object_moving(twist))
     /\ ~is_any_object_below_table(scene)
     /\ ~is_any_object_touching_base(scene)

\* The while condition without the min_iters test.
WaitCond_no_min(n, lo, hi, scene, twist) ==
  \/ n = 0
  \/ /\ n < hi
     /\ is_any_object_moving(twist)
     /\ ~is_any_object_below_table(scene)
     /\ ~is_any_object_touching_base(scene)

\* The while condition without the test for an object below the table.
WaitCond_ignores_fall(n, lo, hi, scene, twist) ==
  \/ n = 0
  \/ /\ n < hi
     /\ (n < lo \/ is_any_object_moving(twist))
     /\ ~is_any_object_touching_base(scene)

\* The while condition of wait_until_stable ("or" binds weakest).
WaitCond(n, lo, hi, scene, twist) ==
  \/ n = 0
  \/ /\ n < hi
     /\ (n < lo \/ is_any_object_moving(twist))
     /\ ~is_any_object_below_table(scene)
     /\ ~is_any_object_touching_base(scene)

\* step_simulation broadcasting the poses before the engine steps.
step_simulation_broadcast_first(e, cfg, s, m) ==
  LET e0 == IF cfg.tracker /\ ~cfg.real THEN Call(e, "send_poses", 0) ELSE e
      e1 == Call([e0 EXCEPT !.phys = s, !.moving = m], "stepSimulation", 0)
  IN  Call(e1, "recorder.add_frame", 0)

\* TableEnv.step_simulation: the engine steps to scene s with twist m, the
\* recorder is offered a frame, and a tracker on a simulated arm broadcasts
\* the poses.
step_simulation(e, cfg, s, m) ==
  LET e1 == Call([e EXCEPT !.phys = s, !.moving = m], "stepSimulation", 0)
      e2 == Call(e1, "recorder.add_frame", 0)
  IN  IF cfg.tracker /\ ~cfg.real THEN Call(e2, "send_poses", 0) ELSE e2

\* One iteration of wait_until_stable's loop body.
wait_body(e, cfg, s, m) ==
  LET e1 == Call(e, "arm.update_torques", 0)
      e2 == Call(e1, "gripper.update_torques", 0)
  IN  step_simulation(e2, cfg, s, m)

\* A direct call wait_until_stable(min_iters, max_iters).
WaitCall ==
  /\ pc = "idle"
  /\ \E lo \in 0 .. MaxIters, hi \in 0 .. MaxIters :
       /\ min_iters' = lo
       /\ max_iters' = hi
  /\ moving' \in BOOLEAN
  /\ num_iters' = 0
  /\ pc' = "wait"
  /\ op' = "wait_until_stable"
  /\ ret' = NoRet
  /\ result' = NoResult
  /\ trace' = << >>
  /\ arg' = 0
  /\ sampled' = {}
  /\ UNCHANGED <<obsVars, recVars, boxVars, config, phys, grasp, saved, states, task, primitive,
                 max_attempts, taken>>

WaitIter ==
  /\ pc = "wait"
  /\ WaitCond(num_iters, min_iters, max_iters, phys, moving)
  /\ \E s \in Scenes, m \in BOOLEAN : Commit(wait_body(Cur, config, s, m))
  /\ num_iters' = num_iters + 1
  /\ FramesFit(recorder, 1)
  /\ recorder' = Recorder_add_frame(recorder)
  /\ UNCHANGED <<obsVars, boxVars, timelapse, mode, config, pc, op, arg, max_attempts,
                 sampled, min_iters, max_iters, taken>>

WaitReturn ==
  /\ pc = "wait"
  /\ ~WaitCond(num_iters, min_iters, max_iters, phys, moving)
  /\ Commit(Return(Cur, [NoRet EXCEPT !.n = num_iters]))
  /\ pc' = IF op = "reset" THEN "reset_check" ELSE "idle"
  /\ UNCHANGED <<obsVars, recVars, boxVars, config, op, arg, max_attempts, sampled, num_iters,
                 min_iters, max_iters, taken>>

(***************************************************************************)
(* step.                                                                   *)
(***************************************************************************)
\* float(result.success)
Float(b) == IF b THEN 1 ELSE 0

\* primitive.execute(action, robot, wait_until_stable) on the primitive
\* get_primitive() returns: the primitive moves the robot, may grasp or
\* release, lets the scene settle, and reports.
execute(e, s, g, res) ==
  Call([e EXCEPT !.phys = s, !.grasp = g, !.result = res],
       "primitive.execute", e.primitive)

\* step reporting terminated from success instead of truncated.
step_terminated_on_success(e, s, g, res) ==
  LET e1 == Call(e, "recorder.add_frame", 0)
      e2 == Call(e1, "timelapse.add_frame", 0)
      e3 == execute(e2, s, g, res)
      obs == get_observation(e3.phys)
      e4 == Call(e3, "recorder.add_frame", 0)
      e5 == Call(e4, "timelapse.add_frame", 0)
  IN  Return(e5, [NoRet EXCEPT !.obs = obs,
                               !.reward = Float(e3.result.success),
                               !.terminated = e3.result.success,
                               !.truncated = e3.result.truncated])

\* step letting a control failure of the primitive escape as an exception.
step_raises_on_failure(e, s, g, res) ==
  LET e1 == Call(e, "recorder.add_frame", 0)
      e2 == Call(e1, "timelapse.add_frame", 0)
      e3 == execute(e2, s, g, res)
      obs == get_observation(e3.phys)
      e4 == Call(e3, "recorder.add_frame", 0)
      e5 == Call(e4, "timelapse.add_frame", 0)
  IN  IF ~e3.result.success
        THEN Return(e3, [NoRet EXCEPT !.err = "ControlException"])
      ELSE Return(e5, [NoRet EXCEPT !.obs = obs,
                                    !.reward = Float(e3.result.success),
                                    !.terminated = ~e3.result.truncated,
                                    !.truncated = e3.result.truncated])

\* step offering the closing frames only when the primitive succeeded.
step_frames_on_success_only(e, s, g, res) ==
  LET e1 == Call(e, "recorder.add_frame", 0)
      e2 == Call(e1, "timelapse.add_frame", 0)
      e3 == execute(e2, s, g, res)
      obs == get_observation(e3.phys)
      e4 == Call(e3, "recorder.add_frame", 0)
      e5 == Call(e4, "timelapse.add_frame", 0)
      e6 == IF e3.result.success THEN e5 ELSE e3
  IN  Return(e6, [NoRet EXCEPT !.obs = obs,
                               !.reward = Float(e3.result.success),
                               !.terminated = ~e3.result.truncated,
                               !.truncated = e3.result.truncated])

\* step moving on to the next step of the action skeleton after executing.
step_advances(e, s, g, res) ==
  LET e1 == Call(e, "recorder.add_frame", 0)
      e2 == Call(e1, "timelapse.add_frame", 0)
      e3 == execute(e2, s, g, res)
      obs == get_observation(e3.phys)
      e4 == Call(e3, "recorder.add_frame", 0)
      e5 == Call(e4, "timelapse.add_frame", 0)
      reward == Float(e3.result.success)
      terminated == ~e3.result.truncated
      skeleton == tasks[e5.task].action_skeleton
      e6 == [e5 EXCEPT !.primitive = skeleton[Len(skeleton)]]
  IN  Return(e6, [NoRet EXCEPT !.obs = obs, !.reward = reward,
                               !.terminated = terminated,
                               !.truncated = e3.result.truncated])

\* TableEnv.step, given the scene and grasp execute leaves and its Result.
step_body(e, s, g, res) ==
  LET e1 == Call(e, "recorder.add_frame", 0)
      e2 == Call(e1, "timelapse.add_frame", 0)
      e3 == execute(e2, s, g, res)
      obs == get_observation(e3.phys)
      e4 == Call(e3, "recorder.add_frame", 0)
      e5 == Call(e4, "timelapse.add_frame", 0)
      reward == Float(e3.result.success)
      terminated == ~e3.result.truncated
  IN  Return(e5, [NoRet EXCEPT !.obs = obs, !.reward = reward,
                               !.terminated = terminated,
                               !.truncated = e3.result.truncated])

step ==
  /\ pc = "idle"
  /\ \E s \in Scenes, g \in BOOLEAN,
        res \in [success : BOOLEAN, truncated : BOOLEAN] :
       Commit(step_body(Cur, s, g, res))
  /\ FramesFit(recorder, 2) /\ FramesFit(timelapse, 2)
  /\ recorder' = Recorder_add_frame(Recorder_add_frame(recorder))
  /\ timelapse' = Recorder_add_frame(Recorder_add_frame(timelapse))
  /\ op' = "step"
  /\ arg' = 0
  /\ sampled' = {}
  /\ UNCHANGED <<obsVars, boxVars, mode, config, pc, max_attempts, num_iters, min_iters,
                 max_iters, taken>>

(***************************************************************************)
(* reset.                                                                  *)
(***************************************************************************)
\* The keys of a dictionary as a sequence (ascending; the drain below does
\* not depend on the order).
RECURSIVE KeySeq(_)
KeySeq(ids) ==
  IF ids = {} THEN << >>
  ELSE LET k == CHOOSE x \in ids : \A y \in ids : x <= y
       IN  <<k>> \o KeySeq(ids \ {k})

\* The drain releasing only the first cached snapshot.
remove_states_first_only(e, ids) ==
  IF ids = << >> THEN e ELSE p_removeState(e, Head(ids))

\* The drain releasing every engine state, the initial snapshot included.
RECURSIVE remove_states_and_initial(_, _)
remove_states_and_initial(e, ids) ==
  IF ids = << >> THEN p_removeState(e, 0)
  ELSE remove_states_and_initial(p_removeState(e, Head(ids)), Tail(ids))

\* for state_id in self._states: p.removeState(state_id)
RECURSIVE remove_states(_, _)
remove_states(e, ids) ==
  IF ids = << >> THEN e
  ELSE remove_states(p_removeState(e, Head(ids)), Tail(ids))

\* TableEnv.set_primitive(primitive)
set_primitive(e, prim) ==
  Call([e EXCEPT !.primitive = prim], "set_primitive", 0)

\* reset's prologue without self._states.clear().
reset_begin_no_clear(e, t) ==
  LET e1 == remove_states(e, KeySeq(DOMAIN e.states))
      e3 == Call([e1 EXCEPT !.task = t], "random.choice", t)
  IN  set_primitive(e3, tasks[e3.task].action_skeleton[1])

\* reset's prologue choosing the task but keeping the old primitive.
reset_begin_stale_primitive(e, t) ==
  LET e1 == remove_states(e, KeySeq(DOMAIN e.states))
      e2 == Call([e1 EXCEPT !.states = EmptyDict], "states.clear", 0)
  IN  Call([e2 EXCEPT !.task = t], "random.choice", t)

\* reset, lines 350-354: drain the cache, choose task t, set the primitive.
reset_begin(e, t) ==
  LET e1 == remove_states(e, KeySeq(DOMAIN e.states))
      e2 == Call([e1 EXCEPT !.states = EmptyDict], "states.clear", 0)
      e3 == Call([e2 EXCEPT !.task = t], "random.choice", t)
  IN  set_primitive(e3, tasks[e3.task].action_skeleton[1])

\* any(prop.sample(...) for _ in range(max_attempts)) for the i-th
\* proposition, whose sample() fails `fails` times before it would succeed:
\* sample() is called until it succeeds or the budget is used up, and a
\* successful sample places the object, leaving scene s.
RECURSIVE sample_any(_, _, _, _, _)
sample_any(e, i, budget, fails, s) ==
  IF budget = 0 THEN [e |-> e, ok |-> FALSE]
  ELSE IF fails = 0
    THEN [e |-> Call([e EXCEPT !.phys = s], "sample.true", i), ok |-> TRUE]
  ELSE sample_any(Call(e, "sample.false", i), i, budget - 1, fails - 1, s)

\* The sampling loop taking the propositions last to first.
RECURSIVE sample_all_reversed(_, _, _, _, _, _)
sample_all_reversed(e, i, n, budget, fails, s) ==
  IF i > n THEN [e |-> e, ok |-> TRUE, sampled |-> {}]
  ELSE LET one == sample_any(e, n, budget, fails[n], s)
       IN  IF ~one.ok THEN [e |-> one.e, ok |-> FALSE, sampled |-> {}]
           ELSE LET rest == sample_all_reversed(one.e, i, n - 1, budget,
                                                fails, s)
                IN  [rest EXCEPT !.sampled = @ \cup {n}]

\* The sampling loop going on to the later propositions after one has
\* exhausted its budget.
RECURSIVE sample_all_keeps_going(_, _, _, _, _, _)
sample_all_keeps_going(e, i, n, budget, fails, s) ==
  IF i > n THEN [e |-> e, ok |-> TRUE, sampled |-> {}]
  ELSE LET one == sample_any(e, i, budget, fails[i], s)
           rest == sample_all_keeps_going(one.e, i + 1, n, budget, fails, s)
       IN  IF ~one.ok THEN [rest EXCEPT !.ok = FALSE]
           ELSE [rest EXCEPT !.sampled = @ \cup {i}]

\* all(any(...) for prop in initial_state), from proposition i on: stops at
\* the first proposition that exhausts its budget.
RECURSIVE sample_all(_, _, _, _, _, _)
sample_all(e, i, n, budget, fails, s) ==
  IF i > n THEN [e |-> e, ok |-> TRUE, sampled |-> {}]
  ELSE LET one == sample_any(e, i, budget, fails[i], s)
       IN  IF ~one.ok THEN [e |-> one.e, ok |-> FALSE, sampled |-> {}]
           ELSE LET rest == sample_all(one.e, i + 1, n, budget, fails, s)
                IN  [rest EXCEPT !.sampled = @ \cup {i}]

\* for obj in self.objects.values(): obj.reset(), from object i on.
RECURSIVE reset_objects(_, _)
reset_objects(e, i) ==
  IF i > Len(objects) THEN e
  ELSE reset_objects(Call(e, "obj.reset", i), i + 1)

\* The check of lines 375-380, with null its outcome.
any_null(e, null) == Call(e, "any(Null)", Float(null))

\* The attempt restoring the snapshot before it resets the robot.
reset_attempt_restore_first(e, cfg, budget, in) ==
  LET e1 == p_restoreState(e, 0)
      e2 == robot_reset(e1)
      tracked == Call([e2 EXCEPT !.phys = in.scene], "update_poses", 0)
      e3 == Call(e2, "object_group.reset", 0)
      e4 == any_null(reset_objects(e3, 1), in.null)
      props == tasks[e4.task].initial_state
      smp == sample_all(e4, 1, Len(props), budget, in.fails, in.scene)
  IN  IF cfg.tracker /\ cfg.real
        THEN [e |-> Return(tracked, [NoRet EXCEPT
                                       !.obs = get_observation(tracked.phys)]),
              next |-> "idle", sampled |-> {}]
      ELSE IF in.null
        THEN [e |-> e4, next |-> "reset_loop", sampled |-> {}]
      ELSE IF ~smp.ok
        THEN [e |-> smp.e, next |-> "reset_loop", sampled |-> smp.sampled]
      ELSE [e |-> smp.e, next |-> "wait", sampled |-> smp.sampled]

\* The attempt going on to sample although an argument is Null.
reset_attempt_ignores_null(e, cfg, budget, in) ==
  LET e1 == robot_reset(e)
      e2 == p_restoreState(e1, 0)
      tracked == Call([e2 EXCEPT !.phys = in.scene], "update_poses", 0)
      e3 == Call(e2, "object_group.reset", 0)
      e4 == any_null(reset_objects(e3, 1), in.null)
      props == tasks[e4.task].initial_state
      smp == sample_all(e4, 1, Len(props), budget, in.fails, in.scene)
  IN  IF cfg.tracker /\ cfg.real
        THEN [e |-> Return(tracked, [NoRet EXCEPT
                                       !.obs = get_observation(tracked.phys)]),
              next |-> "idle", sampled |-> {}]
      ELSE IF ~smp.ok
        THEN [e |-> smp.e, next |-> "reset_loop", sampled |-> smp.sampled]
      ELSE [e |-> smp.e, next |-> "wait", sampled |-> smp.sampled]

\* An attempt that surfaces a sampling failure instead of starting over.
reset_attempt_gives_up(e, cfg, budget, in) ==
  LET e1 == robot_reset(e)
      e2 == p_restoreState(e1, 0)
      tracked == Call([e2 EXCEPT !.phys = in.scene], "update_poses", 0)
      e3 == Call(e2, "object_group.reset", 0)
      e4 == any_null(reset_objects(e3, 1), in.null)
      props == tasks[e4.task].initial_state
      smp == sample_all(e4, 1, Len(props), budget, in.fails, in.scene)
  IN  IF cfg.tracker /\ cfg.real
        THEN [e |-> Return(tracked, [NoRet EXCEPT
                                       !.obs = get_observation(tracked.phys)]),
              next |-> "idle", sampled |-> {}]
      ELSE IF in.null
        THEN [e |-> e4, next |-> "reset_loop", sampled |-> {}]
      ELSE IF ~smp.ok
        THEN [e |-> Return(smp.e, [NoRet EXCEPT !.err = "RuntimeError"]),
              next |-> "idle", sampled |-> smp.sampled]
      ELSE [e |-> smp.e, next |-> "wait", sampled |-> smp.sampled]

\* An attempt that updates the tracked poses and then goes on like a
\* simulated one instead of leaving the loop.
reset_attempt_tracker_goes_on(e, cfg, budget, in) ==
  LET e1 == robot_reset(e)
      e2 == p_restoreState(e1, 0)
      tracked == IF cfg.tracker /\ cfg.real
                   THEN Call([e2 EXCEPT !.phys = in.scene], "update_poses", 0)
                 ELSE e2
      e3 == Call(tracked, "object_group.reset", 0)
      e4 == any_null(reset_objects(e3, 1), in.null)
      props == tasks[e4.task].initial_state
      smp == sample_all(e4, 1, Len(props), budget, in.fails, in.scene)
  IN  IF in.null
        THEN [e |-> e4, next |-> "reset_loop", sampled |-> {}]
      ELSE IF ~smp.ok
        THEN [e |-> smp.e, next |-> "reset_loop", sampled |-> smp.sampled]
      ELSE [e |-> smp.e, next |-> "wait", sampled |-> smp.sampled]

\* One pass of reset's while loop up to the stability wait (lines 357-394).
\* in.scene: the scene the collaborator that moves the objects leaves (the
\* tracker's poses, or the placement of the successful samples); in.null: some
\* action-skeleton argument is a Null variant after the object resets;
\* in.fails[i]: how often sample() of proposition i fails before succeeding.
reset_attempt(e, cfg, budget, in) ==
  LET e1 == robot_reset(e)
      e2 == p_restoreState(e1, 0)
      tracked == Call([e2 EXCEPT !.phys = in.scene], "update_poses", 0)
      e3 == Call(e2, "object_group.reset", 0)
      e4 == any_null(reset_objects(e3, 1), in.null)
      props == tasks[e4.task].initial_state
      smp == sample_all(e4, 1, Len(props), budget, in.fails, in.scene)
  IN  IF cfg.tracker /\ cfg.real
        THEN [e |-> Return(tracked, [NoRet EXCEPT
                                       !.obs = get_observation(tracked.phys)]),
              next |-> "idle", sampled |-> {}]
      ELSE IF in.null
        THEN [e |-> e4, next |-> "reset_loop", sampled |-> {}]
      ELSE IF ~smp.ok
        THEN [e |-> smp.e, next |-> "reset_loop", sampled |-> smp.sampled]
      ELSE [e |-> smp.e, next |-> "wait", sampled |-> smp.sampled]

\* reset accepting the attempt without evaluating the predicates.
reset_check_no_value(e) ==
  IF is_any_object_below_table(e.phys) \/ is_any_object_touching_base(e.phys)
    THEN [e |-> e, next |-> "reset_loop"]
  ELSE [e |-> Return(e, [NoRet EXCEPT !.obs = get_observation(e.phys)]),
        next |-> "idle"]

\* reset checking only for objects under the table, not for base contact.
reset_check_no_base(e) ==
  IF is_any_object_below_table(e.phys)
    THEN [e |-> e, next |-> "reset_loop"]
  ELSE IF \A i \in 1 .. Len(tasks[e.task].initial_state) :
            Value(tasks[e.task].initial_state[i], e.phys)
    THEN [e |-> Return(e, [NoRet EXCEPT !.obs = get_observation(e.phys)]),
          next |-> "idle"]
  ELSE [e |-> e, next |-> "reset_loop"]

\* reset's final check starting over even when every predicate is true.
reset_check_never_accepts(e) ==
  [e |-> e, next |-> "reset_loop"]

\* reset after the stability wait (lines 396-406).
reset_check(e) ==
  IF is_any_object_below_table(e.phys) \/ is_any_object_touching_base(e.phys)
    THEN [e |-> e, next |-> "reset_loop"]
  ELSE IF \A i \in 1 .. Len(tasks[e.task].initial_state) :
            Value(tasks[e.task].initial_state[i], e.phys)
    THEN [e |-> Return(e, [NoRet EXCEPT !.obs = get_observation(e.phys)]),
          next |-> "idle"]
  ELSE [e |-> e, next |-> "reset_loop"]

\* What the collaborators may decide in one pass, for n propositions.
ResetInputs(n, budget) ==
  [scene : Scenes, null : BOOLEAN, fails : [1 .. n -> 0 .. budget]]

ResetBegin ==
  /\ pc = "idle"
  /\ \E t \in 1 .. Len(tasks) : Commit(reset_begin(Cur, t))
  /\ \E budget \in 0 .. MaxAttempts : max_attempts' = budget
  /\ pc' = "reset_loop"
  /\ op' = "reset"
  /\ arg' = 0
  /\ sampled' = {}
  /\ taken' = EmptyDict
  /\ UNCHANGED <<obsVars, recVars, boxVars, config, num_iters, min_iters, max_iters>>

ResetAttempt ==
  /\ pc = "reset_loop"
  /\ \E in \in ResetInputs(Len(tasks[task].initial_state), max_attempts) :
       LET r == reset_attempt(Cur, config, max_attempts, in)
       IN  /\ Commit(r.e)
           /\ pc' = r.next
           /\ sampled' = r.sampled
           /\ min_iters' = IF r.next = "wait" THEN 1 ELSE 0
           /\ max_iters' = IF r.next = "wait" THEN MaxIters ELSE 0
           /\ max_attempts' = IF r.next = "idle" THEN 0 ELSE max_attempts
  /\ num_iters' = 0
  /\ UNCHANGED <<obsVars, recVars, boxVars, config, op, arg, taken>>

ResetCheck ==
  /\ pc = "reset_check"
  /\ LET r == reset_check(Cur)
     IN  /\ Commit([r.e EXCEPT !.moving = FALSE])
         /\ pc' = r.next
         /\ max_attempts' = IF r.next = "idle" THEN 0 ELSE max_attempts
  /\ num_iters' = 0
  /\ min_iters' = 0
  /\ max_iters' = 0
  /\ UNCHANGED <<obsVars, recVars, boxVars, config, op, arg, sampled, taken>>

(***************************************************************************)
(* Observations of a registry of any size.  A state vector is abstracted   *)
(* to a code, 0 standing for the all-zero vector and 1 for any other.      *)
(***************************************************************************)
StateCodes == {0, 1}

\* The observation matrices: MAX_NUM_OBJECTS rows.
Matrices == [1 .. MAX_NUM_OBJECTS -> StateCodes]

\* The registries the constructor accepts: it needs the object "table"
\* (line 130) and sets no upper limit.
Registries ==
  UNION {[1 .. n -> StateCodes \ {0}] : n \in 1 .. MaxObjects}

\* TableEnv.object_states for a registry reg: the end-effector's state is
\* inserted when the enumeration reaches index EE_OBSERVATION_IDX.
ObjectStates(reg, ee) ==
  IF Len(reg) = 0 THEN << >>
  ELSE SubSeq(reg, 1, EE_OBSERVATION_IDX) \o <<ee>> \o
       SubSeq(reg, EE_OBSERVATION_IDX + 1, Len(reg))

\* TableEnv.get_observation: np.zeros of MAX_NUM_OBJECTS rows, then
\* observation[i] = vector for each entry; a write past the last row is an
\* IndexError.
GetObservation(reg, ee) ==
  LET os == ObjectStates(reg, ee)
  IN  IF Len(os) > MAX_NUM_OBJECTS
        THEN [obs |-> NoObs, err |-> "IndexError"]
      ELSE [obs |-> [i \in 1 .. MAX_NUM_OBJECTS |->
                       IF i <= Len(os) THEN os[i] ELSE 0],
            err |-> "none"]

\* The rows set_observation reads objects from: every row index but
\* EE_OBSERVATION_IDX, ascending (1-based here).
ObjectRows(m) ==
  LET NotEE(i) == i # EE_OBSERVATION_IDX + 1
  IN  SelectSeq([i \in 1 .. Len(m) |-> i], NotEE)

\* The call that drives the arm to the pose of row r of m.
GotoPose(m, r, reach) ==
  [call |-> IF reach THEN "goto_pose" ELSE "goto_pose: ControlException",
   arg |-> <<r, m[r]>>, held |-> FALSE]

\* The calls object.set_state(ObjectState(m[rows[j]])) for objects 1 .. n,
\* each logged as <<object, row, vector>>.
SetStates(m, rows, n) ==
  [j \in 1 .. n |-> [call |-> "object.set_state",
                     arg |-> <<j, rows[j], m[rows[j]]>>, held |-> FALSE]]

\* set_observation letting the ControlException of goto_pose escape.
SetObservation_propagates(reg, ee, m, reach, stop) ==
  LET rows == ObjectRows(m)
      n == IF Len(reg) < Len(rows) THEN Len(reg) ELSE Len(rows)
  IN  IF ~reach
        THEN [registry |-> reg, ee |-> stop, err |-> "ControlException",
              trace |-> <<GotoPose(m, EE_OBSERVATION_IDX + 1, reach)>>]
      ELSE [registry |-> [j \in 1 .. Len(reg) |->
                            IF j <= n THEN m[rows[j]] ELSE reg[j]],
            ee |-> m[EE_OBSERVATION_IDX + 1],
            err |-> "none",
            trace |-> <<GotoPose(m, EE_OBSERVATION_IDX + 1, reach)>> \o
                      SetStates(m, rows, n)]

\* TableEnv.set_observation(m): drive the arm to the pose of row
\* EE_OBSERVATION_IDX (reach: goto_pose succeeds; otherwise it raises
\* ControlException, caught here, with the arm left at stop), then
\* zip(the other rows, the objects): object.set_state(row).
SetObservation(reg, ee, m, reach, stop) ==
  LET rows == ObjectRows(m)
      n == IF Len(reg) < Len(rows) THEN Len(reg) ELSE Len(rows)
  IN  [registry |-> [j \in 1 .. Len(reg) |->
                       IF j <= n THEN m[rows[j]] ELSE reg[j]],
       ee |-> IF reach THEN m[EE_OBSERVATION_IDX + 1] ELSE stop,
       err |-> "none",
       trace |-> <<GotoPose(m, EE_OBSERVATION_IDX + 1, reach)>> \o
                 SetStates(m, rows, n)]

ObsFrame ==
  UNCHANGED <<recVars, boxVars, config, phys, moving, grasp, saved, states, task, primitive,
              result, pc, arg, max_attempts, sampled, num_iters, min_iters,
              max_iters, taken>>

ObsGet ==
  /\ pc = "idle"
  /\ LET r == GetObservation(registry, ee_pose)
     IN  ret' = [NoRet EXCEPT !.obs = r.obs, !.err = r.err]
  /\ op' = "get_observation"
  /\ trace' = << >>
  /\ UNCHANGED <<registry, ee_pose>>
  /\ ObsFrame

ObsSet ==
  /\ pc = "idle"
  /\ \E m \in Matrices, reach \in BOOLEAN, stop \in StateCodes :
       /\ reach => stop = 0
       /\ ~reach => stop # 0
       /\ LET r == SetObservation(registry, ee_pose, m, reach, stop)
          IN  /\ registry' = r.registry
              /\ ee_pose' = r.ee
              /\ ret' = [NoRet EXCEPT !.err = r.err]
              /\ trace' = r.trace
  /\ op' = "set_observation"
  /\ ObsFrame

\* The composition set_observation(get_observation()): an error raised by
\* get_observation reaches the caller before set_observation is entered.
ObsRoundTrip ==
  /\ pc = "idle"
  /\ LET g == GetObservation(registry, ee_pose)
     IN  IF g.err # "none"
           THEN /\ ret' = [NoRet EXCEPT !.err = g.err]
                /\ trace' = << >>
                /\ UNCHANGED <<registry, ee_pose>>
         ELSE \E reach \in BOOLEAN, stop \in StateCodes :
                /\ reach => stop = 0
                /\ ~reach => stop # 0
                /\ LET r == SetObservation(registry, ee_pose, g.obs, reach,
                                           stop)
                   IN  /\ registry' = r.registry
                       /\ ee_pose' = r.ee
                       /\ ret' = [NoRet EXCEPT !.err = r.err]
                       /\ trace' = r.trace
  /\ op' = "set_observation(get_observation())"
  /\ ObsFrame

(***************************************************************************)
(* record_start, record_stop and record_save.  rc holds the two channels,  *)
(* the calls made on them and the value returned.                          *)
(***************************************************************************)
\* The mode argument: None, the two modes, and any other string.
Modes == {"None", "default", "timelapse", "other"}

CurRec == [recorder |-> recorder, timelapse |-> timelapse, trace |-> << >>,
           ok |-> FALSE]

\* record_start starting both channels whatever valid mode it is given.
record_start_body_both(rc, m) ==
  IF m = "timelapse" \/ m = "default"
    THEN [Call(Call(rc, "timelapse.start", 0), "recorder.start", 0) EXCEPT
            !.timelapse = Recorder_start(@), !.recorder = Recorder_start(@),
            !.ok = TRUE]
  ELSE [rc EXCEPT !.ok = FALSE]

\* record_start treating every mode but 'timelapse' as 'default'.
record_start_body_defaults(rc, m) ==
  IF m = "timelapse"
    THEN [Call(rc, "timelapse.start", 0) EXCEPT
            !.timelapse = Recorder_start(@), !.ok = TRUE]
  ELSE [Call(rc, "recorder.start", 0) EXCEPT
          !.recorder = Recorder_start(@), !.ok = TRUE]

\* TableEnv.record_start(mode=m)
record_start_body(rc, m) ==
  IF m = "timelapse"
    THEN [Call(rc, "timelapse.start", 0) EXCEPT
            !.timelapse = Recorder_start(@), !.ok = TRUE]
  ELSE IF m = "default"
    THEN [Call(rc, "recorder.start", 0) EXCEPT
            !.recorder = Recorder_start(@), !.ok = TRUE]
  ELSE [rc EXCEPT !.ok = FALSE]

\* record_stop stopping the other channel than the one its mode names.
record_stop_body_swapped(rc, m) ==
  IF m = "default"
    THEN LET r == Recorder_stop(rc.timelapse)
         IN  [Call(rc, "timelapse.stop", Float(r.ok)) EXCEPT
                !.timelapse = r.ch, !.ok = r.ok]
  ELSE IF m = "timelapse"
    THEN LET r == Recorder_stop(rc.recorder)
         IN  [Call(rc, "recorder.stop", Float(r.ok)) EXCEPT
                !.recorder = r.ch, !.ok = r.ok]
  ELSE [rc EXCEPT !.ok = FALSE]

\* TableEnv.record_stop(mode=m)
record_stop_body(rc, m) ==
  IF m = "timelapse"
    THEN LET r == Recorder_stop(rc.timelapse)
         IN  [Call(rc, "timelapse.stop", Float(r.ok)) EXCEPT
                !.timelapse = r.ch, !.ok = r.ok]
  ELSE IF m = "default"
    THEN LET r == Recorder_stop(rc.recorder)
         IN  [Call(rc, "recorder.stop", Float(r.ok)) EXCEPT
                !.recorder = r.ch, !.ok = r.ok]
  ELSE [rc EXCEPT !.ok = FALSE]

\* record_save with a short-circuit "or": the fixed-frequency channel is
\* not saved once the timelapse channel has produced output.
record_save_body_short_circuit(rc, m, reset, wt, wr) ==
  LET t == Recorder_save(rc.timelapse, reset, wt)
      rc1 == IF m = "None" \/ m = "timelapse"
               THEN [Call(rc, "timelapse.save", Float(t.ok)) EXCEPT
                       !.timelapse = t.ch, !.ok = @ \/ t.ok]
             ELSE rc
      r == Recorder_save(rc1.recorder, reset, wr)
  IN  IF (m = "None" \/ m = "default") /\ ~rc1.ok
        THEN [Call(rc1, "recorder.save", Float(r.ok)) EXCEPT
                !.recorder = r.ch, !.ok = @ \/ r.ok]
      ELSE rc1

\* TableEnv.record_save(path, reset, mode=m); wt and wr: the writing of the
\* timelapse and of the fixed-frequency recordings produces a file.
record_save_body(rc, m, reset, wt, wr) ==
  LET t == Recorder_save(rc.timelapse, reset, wt)
      rc1 == IF m = "None" \/ m = "timelapse"
               THEN [Call(rc, "timelapse.save", Float(t.ok)) EXCEPT
                       !.timelapse = t.ch, !.ok = @ \/ t.ok]
             ELSE rc
      r == Recorder_save(rc1.recorder, reset, wr)
  IN  IF m = "None" \/ m = "default"
        THEN [Call(rc1, "recorder.save", Float(r.ok)) EXCEPT
                !.recorder = r.ch, !.ok = @ \/ r.ok]
      ELSE rc1

CommitRec(rc) ==
  /\ recorder' = rc.recorder
  /\ timelapse' = rc.timelapse
  /\ trace' = rc.trace
  /\ ret' = [NoRet EXCEPT !.flag = rc.ok]

RecFrame ==
  UNCHANGED <<obsVars, boxVars, config, phys, moving, grasp, saved, states,
              task, primitive, result, pc, arg, max_attempts, sampled, num_iters,
              min_iters, max_iters, taken>>

record_start ==
  /\ pc = "idle"
  /\ \E m \in Modes :
       /\ CommitRec(record_start_body(CurRec, m))
       /\ mode' = m
  /\ op' = "record_start"
  /\ RecFrame

record_stop ==
  /\ pc = "idle"
  /\ \E m \in Modes :
       /\ CommitRec(record_stop_body(CurRec, m))
       /\ mode' = m
  /\ op' = "record_stop"
  /\ RecFrame

record_save ==
  /\ pc = "idle"
  /\ \E m \in Modes, reset \in BOOLEAN, wt \in BOOLEAN, wr \in BOOLEAN :
       /\ CommitRec(record_save_body(CurRec, m, reset, wt, wr))
       /\ mode' = m
  /\ op' = "record_save"
  /\ RecFrame

(***************************************************************************)
(* Resolving primitives: get_primitive_info, set_primitive with every      *)
(* combination of arguments, and the task creation of the constructor.     *)
(* None is the string "None"; idx_policy counts from 1 and 0 is None.      *)
(***************************************************************************)
\* self._primitives
primitives == <<"pick", "place">>

\* The action calls that name a known primitive and known objects.
ResolvableCalls ==
  UNION {{tasks[t].action_skeleton[i] : i \in 1 .. Len(tasks[t].action_skeleton)} :
           t \in 1 .. Len(tasks)}

\* Action calls with an unknown primitive, an unknown object and no
\* parentheses.
BadCalls == {"jump(hook)", "pick(box)", "pick hook"}

\* Primitive.from_action_call: the primitive, or an error for a call that
\* does not resolve.
from_action_call(tr, action_call) ==
  IF action_call \in ResolvableCalls
    THEN [trace |-> Append(tr, [call |-> "from_action_call",
                                arg |-> action_call, held |-> FALSE]),
          prim |-> action_call, err |-> "none"]
  ELSE [trace |-> Append(tr, [call |-> "from_action_call: error",
                              arg |-> action_call, held |-> FALSE]),
        prim |-> "None", err |-> "ConfigError"]

\* f"{self.primitives[idx_policy]}({args})", args being the joined names.
FormatCall(idx_policy, args) ==
  IF primitives[idx_policy] = "pick"
    THEN IF args = "hook" THEN "pick(hook)" ELSE "pick(hook, table)"
  ELSE IF args = "hook" THEN "place(hook)" ELSE "place(hook, table)"

\* TableEnv.get_primitive_info
get_primitive_info(tr, action_call, idx_policy, policy_args) ==
  IF action_call # "None"
    THEN from_action_call(tr, action_call)
  ELSE IF idx_policy # 0 /\ policy_args # "None"
    THEN IF idx_policy > Len(primitives)
           THEN [trace |-> tr, prim |-> "None", err |-> "IndexError"]
         ELSE from_action_call(tr, FormatCall(idx_policy, policy_args))
  ELSE [trace |-> tr, prim |-> "None", err |-> "ValueError"]

\* set_primitive returning normally when the primitive cannot be resolved.
set_primitive_body_swallows(e, prim, action_call, idx_policy, policy_args) ==
  LET info == IF prim = "None"
                THEN get_primitive_info(e.trace, action_call, idx_policy,
                                        policy_args)
              ELSE [trace |-> e.trace, prim |-> prim, err |-> "none"]
      e1 == [e EXCEPT !.trace = info.trace]
  IN  IF info.err # "none" THEN e1
      ELSE IF info.prim \notin ResolvableCalls
        THEN Return(e1, [NoRet EXCEPT !.err = "AssertionError"])
      ELSE set_primitive(e1, info.prim)

\* TableEnv.set_primitive(primitive, action_call, idx_policy, policy_args)
set_primitive_body(e, prim, action_call, idx_policy, policy_args) ==
  LET info == IF prim = "None"
                THEN get_primitive_info(e.trace, action_call, idx_policy,
                                        policy_args)
              ELSE [trace |-> e.trace, prim |-> prim, err |-> "none"]
      e1 == [e EXCEPT !.trace = info.trace]
  IN  IF info.err # "none"
        THEN Return(e1, [NoRet EXCEPT !.err = info.err])
      ELSE IF info.prim \notin ResolvableCalls
        THEN Return(e1, [NoRet EXCEPT !.err = "AssertionError"])
      ELSE set_primitive(e1, info.prim)

\* The arguments tried.
PrimitiveArgs == {"None", "not a Primitive"} \cup ResolvableCalls

ActionCallArgs == {"None"} \cup ResolvableCalls \cup BadCalls

IdxPolicyArgs == 0 .. Len(primitives) + 1

PolicyArgs == {"None", "hook", "hook, table"}

NoArgs == [primitive |-> "None", action_call |-> "None", idx_policy |-> 0,
           policy_args |-> "None"]

CfgFrame ==
  UNCHANGED <<obsVars, recVars, boxVars, config, max_attempts, sampled, num_iters,
              min_iters, max_iters, taken>>

SetPrimitive ==
  /\ pc = "idle"
  /\ \E prim \in PrimitiveArgs, ac \in ActionCallArgs, idx \in IdxPolicyArgs,
        pa \in PolicyArgs :
       /\ Commit(set_primitive_body(Cur, prim, ac, idx, pa))
       /\ arg' = [primitive |-> prim, action_call |-> ac, idx_policy |-> idx,
                  policy_args |-> pa]
  /\ op' = "set_primitive"
  /\ UNCHANGED pc
  /\ CfgFrame

GetPrimitiveInfo ==
  /\ pc = "idle"
  /\ \E ac \in ActionCallArgs, idx \in IdxPolicyArgs, pa \in PolicyArgs :
       LET info == get_primitive_info(<< >>, ac, idx, pa)
       IN  /\ Commit([Cur EXCEPT !.trace = info.trace,
                                 !.ret = [NoRet EXCEPT !.err = info.err]])
           /\ arg' = [NoArgs EXCEPT !.action_call = ac, !.idx_policy = idx,
                                    !.policy_args = pa]
  /\ op' = "get_primitive_info"
  /\ UNCHANGED pc
  /\ CfgFrame

\* The positions <<task, step>> of the task configuration's action calls.
Positions ==
  UNION {{<<t, i>> : i \in 1 .. Len(tasks[t].action_skeleton)} :
           t \in 1 .. Len(tasks)}

\* Task.create's loop over the action skeleton of task t from step i on; the
\* calls at the positions in bad are replaced by one that does not resolve.
RECURSIVE create_primitives(_, _, _, _)
create_primitives(tr, t, i, bad) ==
  IF i > Len(tasks[t].action_skeleton) THEN [trace |-> tr, err |-> "none"]
  ELSE LET ac == IF <<t, i>> \in bad THEN "pick(box)"
                 ELSE tasks[t].action_skeleton[i]
           info == get_primitive_info(tr, ac, 0, "None")
       IN  IF info.err # "none" THEN [trace |-> info.trace, err |-> info.err]
           ELSE create_primitives(info.trace, t, i + 1, bad)

\* Task.create for task t; badprops: the tasks with an initial-state
\* proposition that Predicate.create rejects.
Task_create(tr, t, bad, badprops) ==
  LET r == create_primitives(tr, t, 1, bad)
  IN  IF r.err # "none" THEN r
      ELSE IF t \in badprops
        THEN [trace |-> Append(r.trace, [call |-> "Predicate.create: error",
                                         arg |-> "None", held |-> FALSE]),
              err |-> "ConfigError"]
      ELSE [trace |-> Append(r.trace, [call |-> "Predicate.create",
                                       arg |-> "None", held |-> FALSE]),
            err |-> "none"]

\* The constructor creating the first task and going on even when it failed.
RECURSIVE create_tasks_keeps_going(_, _, _, _)
create_tasks_keeps_going(tr, t, bad, badprops) ==
  IF t > Len(tasks) THEN [trace |-> tr, err |-> "none"]
  ELSE LET r == Task_create(tr, t, bad, badprops)
       IN  create_tasks_keeps_going(r.trace, t + 1, bad, badprops)

\* self._tasks = [Task.create(self, **task) for task in tasks], from task t on
RECURSIVE create_tasks(_, _, _, _)
create_tasks(tr, t, bad, badprops) ==
  IF t > Len(tasks) THEN [trace |-> tr, err |-> "none"]
  ELSE LET r == Task_create(tr, t, bad, badprops)
       IN  IF r.err # "none" THEN r
           ELSE create_tasks(r.trace, t + 1, bad, badprops)

\* TableEnv.__init__ from the creation of the tasks on.
Construct ==
  /\ pc = "new"
  /\ \E bad \in SUBSET Positions, badprops \in SUBSET (1 .. Len(tasks)) :
       LET r == create_tasks(<< >>, 1, bad, badprops)
       IN  IF r.err # "none"
             THEN /\ pc' = "aborted"
                  /\ ret' = [NoRet EXCEPT !.err = r.err]
                  /\ trace' = r.trace
                  /\ UNCHANGED <<task, primitive, saved>>
           ELSE /\ pc' = "idle"
                /\ ret' = NoRet
                /\ trace' = Append(r.trace, [call |-> "set_primitive",
                                             arg |-> "None", held |-> FALSE])
                /\ task' = 1
                /\ primitive' = tasks[1].action_skeleton[1]
                /\ saved' = Put(EmptyDict, 0, InitScene)
  /\ op' = "__init__"
  /\ UNCHANGED <<phys, moving, grasp, states, result, arg>>
  /\ CfgFrame

(***************************************************************************)
(* The Box2D environments: Box2DBase and PushLeft2D.                       *)
(***************************************************************************)
\* What the environment reads off the world: PushLeft2D.__on_ground,
\* __on_right and __in_box of the agent block, and whether the observation
\* lies in observation_space.  A block inside the receptacle is left of its
\* right edge.
Worlds ==
  {w \in [on_ground : BOOLEAN, on_right : BOOLEAN, in_box : BOOLEAN,
          in_bounds : BOOLEAN] : ~(w.in_box /\ w.on_right)}

\* Before the first reset() no world has been validated.
NoWorld == [on_ground |-> FALSE, on_right |-> FALSE, in_box |-> FALSE,
            in_bounds |-> FALSE]

\* self.steps is not assigned before the first reset().
NoSteps == -1

\* PushLeft2D._is_valid, on the world after its simulate(100).
is_valid(w) == w.on_ground /\ w.on_right

\* PushLeft2D._is_done
is_done(w) == w.in_box \/ ~w.on_ground

\* PushLeft2D._get_reward
get_reward(w) == Float(w.in_box)

\* Box2DBase.step reporting only once the budget is overrun.
Box2DBase_step_late(n, budget) ==
  [steps |-> n + 1, steps_exceeded |-> n + 1 > budget]

\* Box2DBase.step after its simulate(): the counter and steps_exceeded.
Box2DBase_step(n, budget) ==
  [steps |-> n + 1, steps_exceeded |-> n + 1 >= budget]

\* No Box2D environment has been constructed.
NoBox2D ==
  /\ steps = NoSteps
  /\ max_episode_steps = 0
  /\ world = NoWorld
  /\ agent = FALSE
  /\ kth = 0

Box2DFrame ==
  UNCHANGED <<config, phys, moving, grasp, saved, states, task, primitive,
              result, arg, max_attempts, sampled, num_iters, min_iters,
              max_iters, taken, obsVars, recVars, max_episode_steps>>

\* Box2DBase.reset up to its loop: the bodies of the old world are destroyed
\* and the counter is cleared.
Box2DResetBegin ==
  /\ pc = "idle"
  /\ steps' = 0
  /\ kth' = 0
  /\ pc' = "box2d_reset"
  /\ op' = "Box2D.reset"
  /\ ret' = NoRet
  /\ trace' = << >>
  /\ UNCHANGED <<world, agent>>
  /\ Box2DFrame

\* One iteration of reset's loop: next(self) generates a world,
\* _setup_spaces finds the agent in it and _is_valid lets it settle with
\* simulate(100), which does not count steps.  A valid world ends the loop
\* and reset returns its observation, unless _get_observation's assertion
\* fails.
Box2DGenerate ==
  /\ pc = "box2d_reset"
  /\ \E w \in Worlds :
       /\ world' = w
       /\ trace' = <<[call |-> "next", arg |-> 0, held |-> FALSE],
                     [call |-> "_is_valid", arg |-> Float(is_valid(w)),
                      held |-> FALSE]>>
       /\ pc' = IF is_valid(w) THEN "idle" ELSE pc
       /\ ret' = IF is_valid(w) /\ ~w.in_bounds
                   THEN [NoRet EXCEPT !.err = "AssertionError"]
                 ELSE NoRet
  /\ agent' = TRUE
  /\ UNCHANGED <<steps, kth, op>>
  /\ Box2DFrame

\* PushLeft2D.step: the force is applied to the agent (None before the
\* first reset), Box2DBase.step simulates and counts, and done is
\* steps_exceeded or _is_done(); _is_done is not called when the budget is
\* spent.
PushLeft2DStep ==
  /\ pc = "idle"
  /\ kth <= MaxEpisodeSteps
  /\ op' = "Box2D.step"
  /\ IF ~agent
       THEN /\ ret' = [NoRet EXCEPT !.err = "AttributeError"]
            /\ trace' = << >>
            /\ UNCHANGED <<steps, world, kth>>
     ELSE \E w \in Worlds :
            LET r == Box2DBase_step(steps, max_episode_steps)
                counted == <<[call |-> "Box2DBase.step",
                              arg |-> Float(r.steps_exceeded),
                              held |-> FALSE]>>
            IN  /\ steps' = r.steps
                /\ kth' = kth + 1
                /\ world' = w
                /\ IF ~w.in_bounds
                     THEN /\ ret' = [NoRet EXCEPT !.err = "AssertionError"]
                          /\ trace' = counted
                   ELSE /\ ret' = [NoRet EXCEPT
                                     !.reward = get_reward(w),
                                     !.terminated =
                                        r.steps_exceeded \/ is_done(w)]
                        /\ trace' =
                             IF r.steps_exceeded THEN counted
                             ELSE Append(counted,
                                         [call |-> "_is_done",
                                          arg |-> Float(is_done(w)),
                                          held |-> FALSE])
  /\ UNCHANGED <<pc, agent>>
  /\ Box2DFrame

(***************************************************************************)
(* Specifications.                                                         *)
(***************************************************************************)
\* The constructor leaving the last task, not tasks[0], current.
InitEnv_last_task ==
  /\ config \in Configs
  /\ phys = InitScene
  /\ moving = FALSE
  /\ grasp = FALSE
  /\ saved = Put(EmptyDict, 0, InitScene)
  /\ states = EmptyDict
  /\ task = Len(tasks)
  /\ primitive = tasks[Len(tasks)].action_skeleton[1]
  /\ pc = "idle"
  /\ op = "init"
  /\ arg = 0
  /\ max_attempts = 0
  /\ sampled = {}
  /\ num_iters = 0
  /\ min_iters = 0
  /\ max_iters = 0
  /\ result = NoResult
  /\ ret = NoRet
  /\ trace = << >>
  /\ taken = EmptyDict
  /\ recorder = NewRecorder
  /\ timelapse = NewRecorder
  /\ mode = "none"

\* The state the constructor leaves (lines 143-150).
InitEnv ==
  /\ config \in Configs
  /\ phys = InitScene
  /\ moving = FALSE
  /\ grasp = FALSE
  /\ saved = Put(EmptyDict, 0, InitScene)
  /\ states = EmptyDict
  /\ task = 1
  /\ primitive = tasks[1].action_skeleton[1]
  /\ pc = "idle"
  /\ op = "init"
  /\ arg = 0
  /\ max_attempts = 0
  /\ sampled = {}
  /\ num_iters = 0
  /\ min_iters = 0
  /\ max_iters = 0
  /\ result = NoResult
  /\ ret = NoRet
  /\ trace = << >>
  /\ taken = EmptyDict
  /\ recorder = NewRecorder
  /\ timelapse = NewRecorder
  /\ mode = "none"

\* The two-object registry of the configuration above.
Init ==
  /\ InitEnv
  /\ registry = [i \in 1 .. Len(objects) |-> StateVector(objects[i], InitScene)]
  /\ ee_pose = StateVector("TableEnv.robot.arm.ee_pose", InitScene)
  /\ NoBox2D

\* The environment under get_state, set_state, step and reset.
Next ==
  \/ get_state
  \/ set_state
  \/ step
  \/ ResetBegin
  \/ ResetAttempt
  \/ WaitIter
  \/ WaitReturn
  \/ ResetCheck

Spec == Init /\ [][Next]_vars

\* wait_until_stable called directly with every min_iters and max_iters.
NextWait ==
  \/ WaitCall
  \/ WaitIter
  \/ WaitReturn

SpecWait == Init /\ [][NextWait]_vars

\* get_observation and set_observation on a registry of any accepted size.
InitObs ==
  /\ InitEnv
  /\ config = [tracker |-> FALSE, real |-> FALSE]
  /\ registry \in Registries
  /\ ee_pose \in StateCodes \ {0}
  /\ NoBox2D

NextObs ==
  \/ ObsGet
  \/ ObsSet
  \/ ObsRoundTrip

SpecObs == InitObs /\ [][NextObs]_vars

\* The recording calls, with step() supplying the frames.
NextRec ==
  \/ record_start
  \/ record_stop
  \/ record_save
  \/ step

\* Recording does not depend on the tracker or the arm.
InitRec ==
  /\ Init
  /\ config = [tracker |-> FALSE, real |-> FALSE]

SpecRec == InitRec /\ [][NextRec]_vars

\* The constructor about to create its tasks: no task, primitive or initial
\* snapshot yet.
InitCfg ==
  /\ config = [tracker |-> FALSE, real |-> FALSE]
  /\ phys = InitScene
  /\ moving = FALSE
  /\ grasp = FALSE
  /\ saved = EmptyDict
  /\ states = EmptyDict
  /\ task = 0
  /\ primitive = "None"
  /\ pc = "new"
  /\ op = "none"
  /\ arg = NoArgs
  /\ max_attempts = 0
  /\ sampled = {}
  /\ num_iters = 0
  /\ min_iters = 0
  /\ max_iters = 0
  /\ result = NoResult
  /\ ret = NoRet
  /\ trace = << >>
  /\ taken = EmptyDict
  /\ recorder = NewRecorder
  /\ timelapse = NewRecorder
  /\ mode = "none"
  /\ registry = [i \in 1 .. Len(objects) |-> StateVector(objects[i], InitScene)]
  /\ ee_pose = StateVector("TableEnv.robot.arm.ee_pose", InitScene)
  /\ NoBox2D

\* Construction, then set_primitive and get_primitive_info.
NextCfg ==
  \/ Construct
  \/ SetPrimitive
  \/ GetPrimitiveInfo

SpecCfg == InitCfg /\ [][NextCfg]_vars

(***************************************************************************)
(* Properties.                                                             *)
(***************************************************************************)
\* reset alone, from its call to its return.
NextReset ==
  \/ ResetBegin
  \/ ResetAttempt
  \/ WaitIter
  \/ WaitReturn
  \/ ResetCheck

\* The scene after a simulation step is settled and satisfies the task.
Settled ==
  /\ ~is_any_object_moving(moving)
  /\ ~is_any_object_below_table(phys)
  /\ ~is_any_object_touching_base(phys)
  /\ \A i \in 1 .. Len(tasks[task].initial_state) :
       Value(tasks[task].initial_state[i], phys)

\* Some outcome of the collaborators lets the attempt about to start pass
\* the tracker branch or the Null check and the sampling: this is
\* ENABLED <<ResetAttempt /\ pc' # "reset_loop">>_vars as a state predicate.
AttemptCanPass ==
  /\ pc = "reset_loop"
  /\ \E in \in ResetInputs(Len(tasks[task].initial_state), max_attempts) :
       reset_attempt(Cur, config, max_attempts, in).next # "reset_loop"

\* reset runs to completion once called (the wait and the final check are
\* executed when control reaches them); an attempt that is not abandoned
\* before the wait is taken eventually if it stays possible (strong
\* fairness, written out with AttemptCanPass for ENABLED), and so is a
\* stability wait that settles in a state satisfying the task.
ResetFairness ==
  /\ WF_vars(WaitIter \/ WaitReturn \/ ResetCheck)
  /\ (<>[]~AttemptCanPass) \/ ([]<><<ResetAttempt /\ pc' # "reset_loop">>_vars)
  /\ SF_vars(WaitIter /\ Settled')

SpecReset == Init /\ [][NextReset]_vars /\ ResetFairness

Returned(name) == pc = "idle" /\ op = name

InitialState == tasks[task].initial_state

AllValuesTrue == \A i \in 1 .. Len(InitialState) : Value(InitialState[i], phys)

AllSampled == sampled = 1 .. Len(InitialState)

TrackedRealArm == config.tracker /\ config.real

PhysicallyValid ==
  /\ ~is_any_object_below_table(phys)
  /\ ~is_any_object_touching_base(phys)

Calls(tr, name) == {i \in 1 .. Len(tr) : tr[i].call = name}

Max(a, b) == IF a >= b THEN a ELSE b

\* C1 as stated: in every configuration, when reset() returns, every
\* predicate of the chosen task's initial_state is true on the returned
\* state and was sampled successfully in the attempt that returned.
C1_Original == Returned("reset") => AllValuesTrue /\ AllSampled

\* C1 amended: unless an object tracker is configured and the arm is a real
\* arm, when reset() returns every predicate of the chosen task's
\* initial_state is true on the returned state and every one of them had a
\* successful sample() in the attempt that returned.
C1_ResetReturnsValidState ==
  (Returned("reset") /\ ~TrackedRealArm) => AllValuesTrue /\ AllSampled

C1_Witness ==
  /\ Returned("reset")
  /\ ~TrackedRealArm
  /\ Len(InitialState) = 2
  /\ sampled = {1, 2}

\* C2 as stated: whenever reset() returns, no non-static object is below
\* the table plane or touching the robot base.
C2_Original == Returned("reset") => PhysicallyValid

\* C2 amended: unless an object tracker is configured and the arm is a real
\* arm, whenever reset() returns no non-static object is below the table
\* plane or touching the robot base, and an attempt in which either holds
\* after the stability wait is rejected: the loop restarts.
C2_ResetReturnsPhysicallyValid ==
  [][/\ (pc' = "idle" /\ op' = "reset" /\ ~TrackedRealArm) => PhysicallyValid'
     /\ (pc = "reset_check" /\ ~PhysicallyValid) =>
          /\ pc' = "reset_loop"
          /\ ret' = NoRet]_vars

C2_Witness ==
  /\ Returned("reset")
  /\ ~TrackedRealArm
  /\ Len(InitialState) = 0
  /\ ret.obs = get_observation(phys)

\* C3: every snapshot id that is a key of the state cache refers to a
\* scene the engine still holds.
C3_CacheKeysAreSaved == DOMAIN states \subseteq DOMAIN saved

C3_Witness ==
  /\ Returned("set_state")
  /\ ret.n = 1
  /\ Cardinality(DOMAIN states) = MaxStates

\* C4: the step that begins reset() releases every cached snapshot id
\* engine-side exactly once and nothing else, empties the cache before the
\* task is chosen and before any snapshot is restored, and the cache stays
\* empty for the rest of reset(), its return included.
C4_ResetDrainsCache ==
  [][/\ (pc = "idle" /\ pc' = "reset_loop") =>
          /\ \A id \in DOMAIN states :
               /\ Cardinality({i \in Calls(trace', "removeState") :
                                 trace'[i].arg = id}) = 1
               /\ id \notin DOMAIN saved'
          /\ \A i \in Calls(trace', "removeState") :
               trace'[i].arg \in DOMAIN states
          /\ \A i \in Calls(trace', "removeState") \cup
                      Calls(trace', "states.clear") :
               \A j \in Calls(trace', "random.choice") \cup
                        Calls(trace', "restoreState") : i < j
          /\ Cardinality(Calls(trace', "states.clear")) = 1
          /\ Cardinality(Calls(trace', "random.choice")) = 1
          /\ states' = EmptyDict
     /\ (op' = "reset") => states' = EmptyDict]_vars

C4_Witness ==
  /\ op = "reset"
  /\ pc = "reset_loop"
  /\ Cardinality(Calls(trace, "removeState")) = MaxStates
  /\ DOMAIN saved = {0}

\* C5: set_state(h) with a handle h that get_state() returned since the
\* last reset() returns True and leaves the observation, the scene and the
\* robot state as they were when h was taken.
C5_SnapshotRoundTrip ==
  (Returned("set_state") /\ arg \in DOMAIN taken) =>
    /\ ret.n = 1
    /\ ret.err = "none"
    /\ get_observation(phys) = taken[arg].obs
    /\ phys = taken[arg].phys
    /\ robot_get_state(Cur) = taken[arg].robot

C5_Witness ==
  /\ Returned("set_state")
  /\ arg \in DOMAIN taken
  /\ Cardinality(DOMAIN taken) = MaxStates
  /\ taken[arg].robot.grasp
  /\ taken[arg].phys # InitScene
  /\ trace[1].held

\* C6: in every set_state() call the engine restore is made with no grasp
\* constraint in place and after the constraint has been released, the
\* robot state is applied only after the restore, and a grasp constraint
\* held after the call is one the applied robot state brought.
C6_ReleaseBeforeRestore ==
  Returned("set_state") =>
    /\ \A i \in Calls(trace, "restoreState") :
         /\ ~trace[i].held
         /\ \E j \in Calls(trace, "remove_grasp_constraint") : j < i
    /\ \A i \in Calls(trace, "robot.set_state") :
         \E j \in Calls(trace, "restoreState") : j < i
    /\ grasp => Calls(trace, "robot.set_state") # {}

C6_Witness ==
  /\ Returned("set_state")
  /\ ret.n = 1
  /\ trace[1].held
  /\ ~grasp
  /\ Calls(trace, "robot.set_state") = {3}

\* C7: wait_until_stable performs at least one simulation step and returns
\* a count >= 1, whatever min_iters, max_iters and the scene on entry.
C7_WaitStepsAtLeastOnce ==
  Returned("wait_until_stable") =>
    /\ ret.n >= 1
    /\ ret.n = num_iters

C7_Witness ==
  /\ Returned("wait_until_stable")
  /\ min_iters = 0
  /\ max_iters = 0
  /\ ret.n = 1

\* C8 as stated: the count wait_until_stable returns is at most max_iters.
C8_Original == Returned("wait_until_stable") => ret.n <= max_iters

\* C8 amended: the number of simulation steps wait_until_stable performs
\* never exceeds max(max_iters, 1), so it terminates even if the objects
\* never settle, and that number is what it returns.
C8_WaitWithinBudget ==
  (op = "wait_until_stable") =>
    /\ num_iters <= Max(max_iters, 1)
    /\ pc = "idle" => ret.n = num_iters

C8_Witness ==
  /\ Returned("wait_until_stable")
  /\ moving
  /\ max_iters = MaxIters
  /\ ret.n = max_iters

\* C9 as stated: a count below max_iters is returned only with min_iters
\* reached and no non-static object moving, below the table or at the base.
C9_Original ==
  (Returned("wait_until_stable") /\ ret.n < max_iters) =>
    /\ ret.n >= min_iters
    /\ ~is_any_object_moving(moving)
    /\ PhysicallyValid

\* C9 amended: a count n < max_iters is returned only if some non-static
\* object is below the table plane or touches the robot base, or if
\* n >= min_iters and no non-static object is moving.
C9_WaitStopCondition ==
  (Returned("wait_until_stable") /\ ret.n < max_iters) =>
    \/ ~PhysicallyValid
    \/ ret.n >= min_iters /\ ~is_any_object_moving(moving)

C9_Witness ==
  /\ Returned("wait_until_stable")
  /\ ret.n < min_iters
  /\ ret.n < max_iters
  /\ moving
  /\ is_any_object_below_table(phys)

\* C10: step() returns reward 1 if result.success else 0, truncated =
\* result.truncated and terminated = not result.truncated, so exactly one
\* of terminated and truncated is true.
C10_StepResult ==
  Returned("step") =>
    /\ ret.reward = (IF result.success THEN 1 ELSE 0)
    /\ ret.truncated = result.truncated
    /\ ret.terminated = ~result.truncated
    /\ ret.terminated # ret.truncated

C10_Witness ==
  /\ Returned("step")
  /\ result.success
  /\ result.truncated
  /\ ret.reward = 1
  /\ ~ret.terminated

\* C11: a control failure of the primitive, which execute reports as a
\* Result with success false, does not make step() raise: step() returns
\* reward 0, the terminated/truncated flags of the Result, and the
\* observation of the scene execute left.
C11_StepReportsFailure ==
  (Returned("step") /\ ~result.success) =>
    /\ ret.err = "none"
    /\ ret.reward = 0
    /\ ret.truncated = result.truncated
    /\ ret.terminated = ~result.truncated
    /\ ret.obs # NoObs
    /\ ret.obs = get_observation(phys)

C11_Witness ==
  /\ Returned("step")
  /\ ~result.success
  /\ result.truncated
  /\ phys.pose = "floor"
  /\ ret.err = "none"
  /\ ret.obs = get_observation(phys)

\* The places in a call log before, and after, the call of execute.
BeforeExecute(tr, name) ==
  {i \in Calls(tr, name) : \A k \in Calls(tr, "primitive.execute") : i < k}

AfterExecute(tr, name) ==
  {i \in Calls(tr, name) : \A k \in Calls(tr, "primitive.execute") : i > k}

\* C12: in every step(), whatever Result execute reports, execute is
\* called once and each of the two recording channels (recorder, timelapse)
\* is offered exactly one frame before that call and exactly one after it.
C12_FramesAroundExecute ==
  Returned("step") =>
    /\ Cardinality(Calls(trace, "primitive.execute")) = 1
    /\ \A c \in {"recorder.add_frame", "timelapse.add_frame"} :
         /\ Cardinality(BeforeExecute(trace, c)) = 1
         /\ Cardinality(AfterExecute(trace, c)) = 1
         /\ Cardinality(Calls(trace, c)) = 2

C12_Witness ==
  /\ Returned("step")
  /\ ~result.success
  /\ ~result.truncated
  /\ Cardinality(AfterExecute(trace, "recorder.add_frame")) = 1
  /\ Cardinality(AfterExecute(trace, "timelapse.add_frame")) = 1

\* C13 as stated: for every registry the constructor accepts,
\* get_observation() returns a matrix of MAX_NUM_OBJECTS rows whose row 0
\* is the end-effector state, whose rows 1..n are the n objects' states in
\* registry order and whose other rows are zero; the objects never
\* outnumber the rows left for them.
C13_Original ==
  Returned("get_observation") =>
    /\ Len(registry) + 1 <= MAX_NUM_OBJECTS
    /\ ret.err = "none"
    /\ Len(ret.obs) = MAX_NUM_OBJECTS
    /\ ret.obs[EE_OBSERVATION_IDX + 1] = ee_pose
    /\ \A j \in 1 .. Len(registry) : ret.obs[j + 1] = registry[j]
    /\ \A i \in Len(registry) + 2 .. MAX_NUM_OBJECTS : ret.obs[i] = 0

\* C14 as stated: set_observation(get_observation()) returns normally,
\* sets object i from row i+1 and leaves every object with the state it
\* had.
C14_Original ==
  [][op' = "set_observation(get_observation())" =>
       /\ ret'.err = "none"
       /\ registry' = registry
       /\ \A j \in 1 .. Len(registry) :
            \E i \in Calls(trace', "object.set_state") :
              trace'[i].arg = <<j, j + 1, registry[j]>>]_vars

\* set_observation(m) was called and goto_pose raised ControlException.
Unreachable ==
  /\ Returned("set_observation")
  /\ Calls(trace, "goto_pose: ControlException") # {}

SampleCalls(tr) == Calls(tr, "sample.true") \cup Calls(tr, "sample.false")

SamplesOf(tr, i) == {b \in SampleCalls(tr) : tr[b].arg = i}

SuccessesOf(tr, i) == {b \in Calls(tr, "sample.true") : tr[b].arg = i}

\* The call log is that of one pass of reset's loop, just finished.
AttemptEnded == op = "reset" /\ Calls(trace, "robot.reset") # {}

\* C16: within one reset attempt the predicates are sampled one after the
\* other in the declared order: a sample() of predicate j is made only
\* after every predicate before j has had a successful sample(), and the
\* calls for different predicates are not interleaved.
C16_SamplingInDeclaredOrder ==
  AttemptEnded =>
    /\ \A b \in SampleCalls(trace) :
         \A i \in 1 .. trace[b].arg - 1 :
           \E a \in SuccessesOf(trace, i) : a < b
    /\ \A a, b \in SampleCalls(trace) :
         a < b => trace[a].arg <= trace[b].arg

C16_Witness ==
  /\ AttemptEnded
  /\ pc = "wait"
  /\ sampled = {1, 2}
  /\ Cardinality(SamplesOf(trace, 1)) = 2
  /\ Cardinality(SamplesOf(trace, 2)) = 2

\* Predicate i used up its budget in the attempt just finished.
Exhausted(i) ==
  /\ SuccessesOf(trace, i) = {}
  /\ Cardinality(SamplesOf(trace, i)) = max_attempts

\* C17: in one reset attempt each predicate's sample() is called at most
\* max_attempts times and never after its first success; when a predicate
\* has failed max_attempts times the attempt is abandoned at once: no later
\* predicate is sampled, no stability wait or value() check follows, and
\* the loop starts over.
C17_SamplingBudget ==
  (AttemptEnded /\ ~TrackedRealArm) =>
    \A i \in 1 .. Len(InitialState) :
      /\ Cardinality(SamplesOf(trace, i)) <= max_attempts
      /\ Cardinality(SuccessesOf(trace, i)) <= 1
      /\ \A a \in SuccessesOf(trace, i) :
           \A b \in SamplesOf(trace, i) : b <= a
      /\ Exhausted(i) =>
           /\ \A k \in i + 1 .. Len(InitialState) : SamplesOf(trace, k) = {}
           /\ Calls(trace, "stepSimulation") = {}
           /\ pc = "reset_loop"
           /\ ret = NoRet

C17_Witness ==
  /\ AttemptEnded
  /\ max_attempts = MaxAttempts
  /\ Cardinality(SuccessesOf(trace, 1)) = 1
  /\ Exhausted(2)
  /\ pc = "reset_loop"

\* The attempt just finished found a Null action-skeleton argument.
NullFound ==
  /\ op = "reset"
  /\ \E i \in Calls(trace, "any(Null)") : trace[i].arg = 1

\* C18: an attempt in which, after the object resets, some argument of the
\* task's action skeleton is a Null object is rejected at once: nothing is
\* sampled, no stability wait runs, reset() does not return from it and
\* the loop starts over.
C18_NullArgumentRejected ==
  NullFound =>
    /\ SampleCalls(trace) = {}
    /\ sampled = {}
    /\ Calls(trace, "stepSimulation") = {}
    /\ pc = "reset_loop"
    /\ ret = NoRet

C18_Witness ==
  /\ NullFound
  /\ max_attempts = MaxAttempts
  /\ Len(InitialState) = 2
  /\ Cardinality(Calls(trace, "obj.reset")) = Len(objects)

\* C19 as stated: every attempt restores the snapshot, then resets the
\* robot, then the object groups, then the objects, and only then samples;
\* no snapshot restore follows the robot reset.
C19_Original ==
  AttemptEnded =>
    /\ \A r \in Calls(trace, "restoreState") :
         \A q \in Calls(trace, "robot.reset") : r < q
    /\ \A q \in Calls(trace, "robot.reset") :
         \A g \in Calls(trace, "object_group.reset") : q < g
    /\ \A g \in Calls(trace, "object_group.reset") :
         \A o \in Calls(trace, "obj.reset") : g < o
    /\ \A o \in Calls(trace, "obj.reset") :
         \A b \in SampleCalls(trace) : o < b
    /\ Calls(trace, "object_group.reset") # {}
    /\ Cardinality(Calls(trace, "obj.reset")) = Len(objects)

\* C19 amended: every attempt resets the robot first and restores the
\* initial snapshot second, once each and with no grasp constraint in
\* place at the restore; with an object tracker and a real arm nothing else
\* is reset or sampled; otherwise the object groups are reset next, then
\* every object in registry order, and only then are predicates sampled.
C19_AttemptOrder ==
  AttemptEnded =>
    /\ trace[1].call = "robot.reset"
    /\ trace[2].call = "restoreState"
    /\ trace[2].arg = 0
    /\ ~trace[2].held
    /\ Cardinality(Calls(trace, "robot.reset")) = 1
    /\ Cardinality(Calls(trace, "restoreState")) = 1
    /\ IF TrackedRealArm
         THEN /\ Calls(trace, "object_group.reset") = {}
              /\ Calls(trace, "obj.reset") = {}
              /\ SampleCalls(trace) = {}
       ELSE /\ trace[3].call = "object_group.reset"
            /\ \A j \in 1 .. Len(objects) :
                 /\ trace[3 + j].call = "obj.reset"
                 /\ trace[3 + j].arg = j
            /\ Cardinality(Calls(trace, "obj.reset")) = Len(objects)
            /\ \A b \in SampleCalls(trace) : b > 3 + Len(objects)

C19_Witness ==
  /\ AttemptEnded
  /\ ~TrackedRealArm
  /\ pc = "wait"
  /\ Cardinality(SampleCalls(trace)) = 3
  /\ phys.pose = "edge"

\* C20: reset() chooses the task once, before the retry loop, and sets the
\* primitive to the first step of its action skeleton; no attempt chooses
\* again or changes the task or the primitive, so when reset() returns the
\* task is the chosen one and the primitive the first step of its skeleton.
C20_TaskChosenOnce ==
  [][/\ (pc = "idle" /\ pc' = "reset_loop") =>
          /\ Cardinality(Calls(trace', "random.choice")) = 1
          /\ \A i \in Calls(trace', "random.choice") : trace'[i].arg = task'
          /\ task' \in 1 .. Len(tasks)
          /\ primitive' = tasks[task'].action_skeleton[1]
     /\ pc # "idle" =>
          /\ task' = task
          /\ primitive' = primitive
          /\ Calls(trace', "random.choice") = {}
     /\ (pc' = "idle" /\ op' = "reset") =>
          primitive' = tasks[task'].action_skeleton[1]]_vars

C20_Witness ==
  /\ Returned("reset")
  /\ ~TrackedRealArm
  /\ task = 2
  /\ primitive = tasks[2].action_skeleton[1]
  /\ primitive # tasks[1].action_skeleton[1]

\* Every action call of every configured task's skeleton.
SkeletonPrimitives ==
  UNION {{tasks[t].action_skeleton[i] : i \in 1 .. Len(tasks[t].action_skeleton)} :
           t \in 1 .. Len(tasks)}

\* C21: in every reachable state the current task is one of the configured
\* tasks and the current primitive is one resolved action call; right after
\* construction they are the first task and the first step of its action
\* skeleton, and the state cache is empty.
C21_OneTaskOnePrimitive ==
  /\ task \in 1 .. Len(tasks)
  /\ primitive \in SkeletonPrimitives
  /\ op = "init" =>
       /\ task = 1
       /\ primitive = tasks[1].action_skeleton[1]
       /\ states = EmptyDict

C21_Witness ==
  /\ Returned("get_state")
  /\ task = 2
  /\ primitive = tasks[2].action_skeleton[1]
  /\ states # EmptyDict

\* C22 as stated: an attempt whose stability wait used up its budget with a
\* non-static object still moving is rejected, so reset() does not return
\* from it.
C22_Original ==
  [][(/\ pc = "reset_check"
      /\ num_iters >= max_iters
      /\ is_any_object_moving(moving)) => pc' = "reset_loop"]_vars

\* The attempt that left trace tr failed before the stability wait: it found
\* a Null action-skeleton argument, or one of the n predicates has no
\* successful sample() and used up the budget (at once, when the budget is 0).
AttemptFailed(tr, budget, n) ==
  \/ \E i \in Calls(tr, "any(Null)") : tr[i].arg = 1
  \/ \E i \in 1 .. n :
       /\ SuccessesOf(tr, i) = {}
       /\ Cardinality(SamplesOf(tr, i)) = budget

\* C23 as stated: in every configuration an attempt that fails in this way
\* starts the loop over; reset() neither returns nor raises.
C23_Original ==
  [][(/\ pc = "reset_loop"
      /\ AttemptFailed(trace', max_attempts, Len(InitialState)))
       => (pc' = "reset_loop" /\ ret' = NoRet)]_vars

\* C23: unless objects are tracked from the real world, an attempt that
\* finds a Null argument, or in which some predicate's sample() fails on
\* every call of its budget (or the budget is 0 and the initial state is
\* not empty), starts the loop over with the same task, primitive and
\* budget: reset() neither returns nor raises, and no count of attempts
\* limits how often this happens.
C23_NoAttemptCap ==
  [][(/\ pc = "reset_loop"
      /\ ~TrackedRealArm
      /\ AttemptFailed(trace', max_attempts, Len(InitialState)))
       => /\ pc' = "reset_loop"
          /\ ret' = NoRet
          /\ UNCHANGED <<task, primitive, max_attempts, states>>]_vars

C23_Witness ==
  /\ AttemptEnded
  /\ ~TrackedRealArm
  /\ pc = "reset_loop"
  /\ max_attempts = 0
  /\ Len(InitialState) = 2
  /\ AttemptFailed(trace, max_attempts, Len(InitialState))
  /\ ~NullFound

\* C24: if an attempt that passes the Null check and the sampling and
\* settles in a physically valid state with every predicate true stays
\* possible and is eventually taken, reset() eventually returns; and every
\* attempt ends, because its stability wait ends.
C24_ResetEventuallyReturns ==
  /\ AttemptCanPass ~> Returned("reset")
  /\ (pc = "wait") ~> (pc = "reset_check" /\ num_iters <= Max(1, max_iters))

C24_Witness ==
  /\ Returned("reset")
  /\ ~TrackedRealArm
  /\ Len(InitialState) = 2
  /\ Settled
  /\ ret.obs = get_observation(phys)

\* The action just taken made a step_simulation call.
SteppedSimulation == op = "wait_until_stable" /\ pc = "wait" /\ num_iters > 0

\* C25: one step_simulation call advances the engine exactly once and
\* broadcasts the tracked poses at most once, only after the engine step of
\* the same call; the broadcast is made exactly when there is an object
\* tracker and the arm is simulated.
C25_PhysicsBeforeBroadcast ==
  /\ Cardinality(Calls(trace, "stepSimulation")) <= 1
  /\ Cardinality(Calls(trace, "send_poses")) <= 1
  /\ \A b \in Calls(trace, "send_poses") :
       \E a \in Calls(trace, "stepSimulation") : a < b
  /\ SteppedSimulation =>
       /\ Cardinality(Calls(trace, "stepSimulation")) = 1
       /\ Calls(trace, "send_poses") # {} <=> (config.tracker /\ ~config.real)

C25_Witness ==
  /\ SteppedSimulation
  /\ num_iters = MaxIters
  /\ Cardinality(Calls(trace, "send_poses")) = 1
  /\ Cardinality(Calls(trace, "stepSimulation")) = 1

\* A step of the model is a recording call exactly when it leaves one of
\* these in op.
RecordOps == {"record_start", "record_stop", "record_save"}

\* The channel a valid mode names, and the other one.
ValidModes == {"default", "timelapse"}

Channel(rc, m) == IF m = "timelapse" THEN rc.timelapse ELSE rc.recorder

OtherChannel(rc, m) == IF m = "timelapse" THEN rc.recorder ELSE rc.timelapse

\* C26: record_stop with mode 'default' or 'timelapse' returns true exactly
\* when that mode's channel was recording, and leaves it not recording; in
\* particular it returns true right after record_start with the same mode,
\* and false on a channel never started or already stopped.
C26_StopAfterStart ==
  [][(op' = "record_stop" /\ mode' \in ValidModes) =>
       /\ ret'.flag = Channel(CurRec, mode').recording
       /\ ~Channel(CurRec', mode').recording
       /\ (op = "record_start" /\ mode = mode') => ret'.flag
       /\ (op = "init" \/ (op = "record_stop" /\ mode = mode')) => ~ret'.flag]_vars

C26_Witness ==
  /\ Returned("record_stop")
  /\ mode = "timelapse"
  /\ ret.flag
  /\ timelapse.stored
  /\ ~timelapse.recording
  /\ recorder.recording

\* The calls the action just taken made on the fixed-frequency channel and
\* on the timelapse channel.
RecorderCalls(tr) ==
  Calls(tr, "recorder.start") \cup Calls(tr, "recorder.stop")
    \cup Calls(tr, "recorder.save")

TimelapseCalls(tr) ==
  Calls(tr, "timelapse.start") \cup Calls(tr, "timelapse.stop")
    \cup Calls(tr, "timelapse.save")

\* C27: record_start, record_stop and record_save with mode 'default' make
\* no call on the timelapse channel and leave its recording state, frames
\* and finished recordings as they were; with mode 'timelapse' they do the
\* same for the fixed-frequency channel.
C27_ChannelsIndependent ==
  [][op' \in RecordOps =>
       /\ mode' = "default" =>
            (timelapse' = timelapse /\ TimelapseCalls(trace') = {})
       /\ mode' = "timelapse" =>
            (recorder' = recorder /\ RecorderCalls(trace') = {})]_vars

\* Both channels are recording, the timelapse one with frames taken before
\* the fixed-frequency one was started.
C27_Witness ==
  /\ Returned("record_start")
  /\ mode = "default"
  /\ recorder.recording
  /\ recorder.frames = 0
  /\ timelapse.recording
  /\ timelapse.frames = MaxFrames

\* Some call named `name` in tr returned true.
Produced(tr, name) == \E i \in Calls(tr, name) : tr[i].arg = 1

\* C28: record_save returns true exactly when a channel it saved produced
\* output.  With mode None it calls save on the timelapse channel and then
\* on the fixed-frequency channel, once each and the second whatever the
\* first returned, and returns the disjunction of the two results; with
\* mode 'timelapse' or 'default' it calls save on that channel only and
\* returns its result.
C28_SaveReturnsAny ==
  Returned("record_save") =>
    /\ mode = "None" =>
         /\ Cardinality(Calls(trace, "timelapse.save")) = 1
         /\ Cardinality(Calls(trace, "recorder.save")) = 1
         /\ \A a \in Calls(trace, "timelapse.save") :
              \A b \in Calls(trace, "recorder.save") : a < b
         /\ ret.flag <=> (Produced(trace, "timelapse.save")
                            \/ Produced(trace, "recorder.save"))
    /\ mode = "timelapse" =>
         /\ Cardinality(Calls(trace, "timelapse.save")) = 1
         /\ Calls(trace, "recorder.save") = {}
         /\ ret.flag <=> Produced(trace, "timelapse.save")
    /\ mode = "default" =>
         /\ Cardinality(Calls(trace, "recorder.save")) = 1
         /\ Calls(trace, "timelapse.save") = {}
         /\ ret.flag <=> Produced(trace, "recorder.save")

C28_Witness ==
  /\ Returned("record_save")
  /\ mode = "None"
  /\ Produced(trace, "timelapse.save")
  /\ Calls(trace, "recorder.save") # {}
  /\ ~Produced(trace, "recorder.save")
  /\ ret.flag

\* The calls in tr that raised while resolving an action call or creating a
\* proposition.
FailedCalls(tr) ==
  Calls(tr, "from_action_call: error") \cup Calls(tr, "Predicate.create: error")

\* The arguments name no primitive: no primitive, no action call, and not
\* both idx_policy and policy_args.
NothingGiven(a) ==
  /\ a.primitive = "None"
  /\ a.action_call = "None"
  /\ (a.idx_policy = 0 \/ a.policy_args = "None")

\* C29: get_primitive_info and set_primitive given no primitive, no action
\* call and not both idx_policy and policy_args raise ValueError without
\* resolving anything; an error raised while resolving an action call is
\* the error the caller gets, and the call is not made again; a
\* set_primitive that raises leaves the current primitive as it was; and
\* construction stops at the first task that cannot be created, raising its
\* error without choosing a task or a primitive.
C29_ConfigErrorsSurface ==
  [][/\ op' \in {"set_primitive", "get_primitive_info"} =>
          /\ NothingGiven(arg') =>
               (ret'.err = "ValueError" /\ trace' = << >>)
          /\ FailedCalls(trace') # {} =>
               /\ ret'.err = "ConfigError"
               /\ Len(trace') = 1
          /\ ret'.err # "none" =>
               (primitive' = primitive /\ Calls(trace', "set_primitive") = {})
          /\ ret'.err = "none" /\ op' = "set_primitive" =>
               primitive' \in ResolvableCalls
     /\ op' = "__init__" =>
          /\ FailedCalls(trace') # {} <=> pc' = "aborted"
          /\ pc' = "aborted" =>
               /\ ret'.err = "ConfigError"
               /\ FailedCalls(trace') = {Len(trace')}
               /\ task' = 0
               /\ primitive' = "None"
               /\ saved' = EmptyDict
          /\ pc' = "idle" => ret'.err = "none"]_vars

C29_Witness ==
  /\ Returned("set_primitive")
  /\ arg.primitive = "None"
  /\ arg.action_call = "pick(box)"
  /\ ret.err = "ConfigError"
  /\ primitive = "place(hook, table)"

\* After n simulation steps the wait is over.
WaitOver(n) ==
  \/ n >= max_iters
  \/ (n >= min_iters /\ ~is_any_object_moving(moving))
  \/ is_any_object_below_table(phys)
  \/ is_any_object_touching_base(phys)

\* C30: wait_until_stable returns the least n >= 1 after which the budget is
\* used up, or min_iters is reached with nothing moving, or an object is
\* below the table or touches the base: with no step made yet, or after n
\* steps that do not end the wait, it makes one more step; after n >= 1
\* steps that end the wait it returns n without another step, even when
\* n < min_iters and an object is still moving.
C30_WaitReturnsLeastCount ==
  [][(pc = "wait" /\ op = "wait_until_stable") =>
       IF num_iters >= 1 /\ WaitOver(num_iters)
         THEN /\ pc' = "idle"
              /\ ret'.n = num_iters
              /\ Calls(trace', "stepSimulation") = {}
              /\ phys' = phys
       ELSE /\ pc' = "wait"
            /\ num_iters' = num_iters + 1
            /\ Cardinality(Calls(trace', "stepSimulation")) = 1]_vars

C30_Witness ==
  /\ Returned("wait_until_stable")
  /\ ret.n = 1
  /\ min_iters = MaxIters
  /\ max_iters = MaxIters
  /\ is_any_object_moving(moving)
  /\ is_any_object_below_table(phys)

\* Every entry of cache a is an entry of cache b, with the same value.
Extends(b, a) ==
  /\ DOMAIN a \subseteq DOMAIN b
  /\ \A k \in DOMAIN a : b[k] = a[k]

\* C31: outside reset's prologue the state cache only grows.  get_state adds
\* exactly one entry, under an id that neither the cache nor the engine held,
\* and keeps every other entry and its saved scene; every other step leaves
\* the cache and the saved scenes of its handles as they were; the cache
\* holds one entry per get_state since the last reset; and set_state on a
\* cached handle succeeds without using the handle up.
C31_CacheOnlyGrows ==
  [][/\ op' = "get_state" =>
          /\ ret'.n \notin DOMAIN states \cup DOMAIN saved
          /\ DOMAIN states' = DOMAIN states \cup {ret'.n}
          /\ Extends(states', states)
          /\ Extends(saved', saved)
     /\ (op' # "get_state" /\ ~(pc = "idle" /\ pc' = "reset_loop")) =>
          /\ states' = states
          /\ \A k \in DOMAIN states : k \in DOMAIN saved' /\ saved'[k] = saved[k]
     /\ DOMAIN taken' = DOMAIN states'
     /\ (op' = "set_state" /\ arg' \in DOMAIN states) =>
          (ret'.err = "none" /\ arg' \in DOMAIN states')]_vars

C31_Witness ==
  /\ Returned("set_state")
  /\ Cardinality(DOMAIN states) = MaxStates
  /\ Cardinality(DOMAIN taken) = MaxStates
  /\ arg \in DOMAIN states
  /\ ret.err = "none"

\* C32 as stated: set_state with a handle that is not in the state cache
\* raises and leaves the grasp constraint, the scene and the robot state as
\* they were.
C32_Original ==
  [][(op' = "set_state" /\ arg' \notin DOMAIN states) =>
       /\ ret'.err # "none"
       /\ grasp' = grasp
       /\ phys' = phys]_vars

\* C32 amended: set_state with a handle that is not in the state cache
\* raises, never calls robot.set_state and leaves the cache and the
\* engine's snapshots as they were, but it has released the grasp
\* constraint first; the scene is as before when the engine does not hold
\* the id, and is the restored one when it does (the initial snapshot).
C32_StaleHandleFails ==
  [][(op' = "set_state" /\ arg' \notin DOMAIN states) =>
       /\ ret'.err # "none"
       /\ Calls(trace', "robot.set_state") = {}
       /\ Cardinality(Calls(trace', "remove_grasp_constraint")) = 1
       /\ ~grasp'
       /\ states' = states
       /\ saved' = saved
       /\ arg' \notin DOMAIN saved =>
            (ret'.err = "pybullet.error" /\ phys' = phys)
       /\ arg' \in DOMAIN saved =>
            (ret'.err = "KeyError" /\ phys' = saved[arg'])]_vars

C32_Witness ==
  /\ Returned("set_state")
  /\ arg \notin DOMAIN states
  /\ arg \notin DOMAIN saved
  /\ ret.err = "pybullet.error"
  /\ \E i \in Calls(trace, "remove_grasp_constraint") : trace[i].held
  /\ ~grasp

\* C33: the initial snapshot (engine id 0, saved at construction) is held by
\* the engine with the scene it was saved with in every reachable state, is
\* never a key of the state cache and is never passed to p.removeState, and
\* every reset attempt restores exactly that snapshot.
C33_InitialSnapshotKept ==
  /\ 0 \in DOMAIN saved
  /\ saved[0] = InitScene
  /\ 0 \notin DOMAIN states
  /\ \A i \in Calls(trace, "removeState") : trace[i].arg # 0
  /\ AttemptEnded =>
       /\ Cardinality(Calls(trace, "restoreState")) = 1
       /\ \A i \in Calls(trace, "restoreState") : trace[i].arg = 0

\* An attempt of a reset() that drained a full cache.
C33_Witness ==
  /\ AttemptEnded
  /\ pc = "reset_loop"
  /\ DOMAIN saved = {0}
  /\ states = EmptyDict
  /\ phys # InitScene

\* C34: step() executes the current primitive, once, and leaves the task,
\* the primitive, the state cache and the engine's snapshots as they were:
\* it does not move along the action skeleton, so the next step() executes
\* the same primitive.
C34_StepKeepsPrimitive ==
  [][op' = "step" =>
       /\ Cardinality(Calls(trace', "primitive.execute")) = 1
       /\ \A i \in Calls(trace', "primitive.execute") :
            trace'[i].arg = primitive
       /\ task' = task
       /\ primitive' = primitive
       /\ states' = states
       /\ saved' = saved]_vars

\* A second step() in a row on a task whose skeleton has a further step.
C34_Witness ==
  /\ Returned("step")
  /\ task = 1
  /\ Len(tasks[task].action_skeleton) > 1
  /\ primitive = tasks[task].action_skeleton[1]
  /\ \E i \in Calls(trace, "primitive.execute") : trace[i].arg = primitive
  /\ states # EmptyDict

\* The names of the calls in tr, in order.
CallNames(tr) == [i \in 1 .. Len(tr) |-> tr[i].call]

\* C35: with an object tracker and a real arm, reset() returns from its
\* first attempt, in which it resets the robot, restores the initial
\* snapshot and updates the tracked poses and does nothing else: no group
\* or object reset, no Null check, no sampling; control never reaches the
\* stability wait or the checks after it, and no second attempt is made.
C35_TrackedResetReturnsAtOnce ==
  TrackedRealArm =>
    /\ pc \in {"idle", "reset_loop"}
    /\ pc = "reset_loop" => ~AttemptEnded
    /\ AttemptEnded =>
         /\ Returned("reset")
         /\ CallNames(trace) = <<"robot.reset", "restoreState", "update_poses">>
         /\ trace[2].arg = 0
         /\ sampled = {}
         /\ ret.obs = get_observation(phys)
         /\ ret.err = "none"

\* The tracked poses are returned as they are, here with the hook on the
\* floor, for a task with an initial state and no sampling budget.
C35_Witness ==
  /\ TrackedRealArm
  /\ AttemptEnded
  /\ Returned("reset")
  /\ Len(InitialState) = 2
  /\ phys.pose = "floor"
  /\ Calls(trace, "update_poses") # {}

\* The call just made names no channel: its mode is neither 'default' nor
\* 'timelapse', and is not the None with which record_save means both.
NoChannelNamed(o, m) ==
  /\ o \in RecordOps
  /\ m \notin ValidModes
  /\ ~(o = "record_save" /\ m = "None")

\* C36: a recording call whose mode names no channel returns False, makes
\* no call on either channel and leaves both as they were; record_start
\* with a valid mode calls start on that channel alone and returns True,
\* whether or not the channel was recording before.
C36_UnknownModeRejected ==
  [][/\ NoChannelNamed(op', mode') =>
          /\ ~ret'.flag
          /\ trace' = << >>
          /\ recorder' = recorder
          /\ timelapse' = timelapse
     /\ (op' = "record_start" /\ mode' \in ValidModes) =>
          /\ ret'.flag
          /\ CallNames(trace') =
               << IF mode' = "timelapse" THEN "timelapse.start"
                                         ELSE "recorder.start" >>]_vars

\* An unknown mode given to record_stop while both channels are recording.
C36_Witness ==
  /\ Returned("record_stop")
  /\ mode = "other"
  /\ ~ret.flag
  /\ recorder.recording
  /\ timelapse.recording
  /\ timelapse.frames = MaxFrames

(***************************************************************************)
(* get_arg_indices: the observation rows in the order a policy reads them. *)
(***************************************************************************)
\* A Python list read at index k: list[k], counted from the end when k is
\* negative, IndexError outside -len .. len-1.  Lists are 1-based here.
InRange(list, k) == k \in -Len(list) .. Len(list) - 1

Item(list, k) == IF k >= 0 THEN list[k + 1] ELSE list[Len(list) + k + 1]

\* range(n) as a list.
Range(n) == [i \in 1 .. n |-> i - 1]

\* [x for x in list if keep(x)] for the set keep.
RECURSIVE Filter(_, _)
Filter(list, keep) ==
  IF list = << >> THEN << >>
  ELSE (IF Head(list) \in keep THEN <<Head(list)>> ELSE << >>)
         \o Filter(Tail(list), keep)

\* get_arg_indices without the shift past the end-effector row.
get_arg_indices_no_shift(idx_policy, policy_args) ==
  LET object_indices == Range(MAX_NUM_OBJECTS)
  IN  IF \E a \in 1 .. Len(policy_args) :
             ~InRange(object_indices, policy_args[a])
        THEN [indices |-> << >>, err |-> "IndexError"]
      ELSE LET arg_indices ==
                 <<EE_OBSERVATION_IDX>> \o
                 [a \in 1 .. Len(policy_args) |->
                    Item(object_indices, policy_args[a])]
               used == {arg_indices[a] : a \in 1 .. Len(arg_indices)}
           IN  [indices |-> arg_indices \o
                            Filter(Range(MAX_NUM_OBJECTS),
                                   (0 .. MAX_NUM_OBJECTS - 1) \ used),
                err |-> "none"]

\* TableEnv.get_arg_indices, with each policy argument given by its
\* idx_object.  The rows named by the arguments are struck from
\* range(MAX_NUM_OBJECTS) and what is left is appended.
get_arg_indices(idx_policy, policy_args) ==
  LET object_indices ==
        Filter(Range(MAX_NUM_OBJECTS),
               (0 .. MAX_NUM_OBJECTS - 1) \ {EE_OBSERVATION_IDX})
  IN  IF \E a \in 1 .. Len(policy_args) :
             ~InRange(object_indices, policy_args[a])
        THEN [indices |-> << >>, err |-> "IndexError"]
      ELSE LET arg_indices ==
                 <<EE_OBSERVATION_IDX>> \o
                 [a \in 1 .. Len(policy_args) |->
                    Item(object_indices, policy_args[a])]
               used == {arg_indices[a] : a \in 1 .. Len(arg_indices)}
           IN  [indices |-> arg_indices \o
                            Filter(Range(MAX_NUM_OBJECTS),
                                   (0 .. MAX_NUM_OBJECTS - 1) \ used),
                err |-> "none"]

\* The idx_object values objects carry: their place in the configuration's
\* object list, or MAX_NUM_OBJECTS + 1 for a member of an object group.
IdxObjects == 0 .. MAX_NUM_OBJECTS + 1

\* The lists of policy arguments, each argument given by its idx_object.
ArgLists == UNION {[1 .. n -> IdxObjects] : n \in 0 .. MaxArgs}

GetArgIndices ==
  /\ pc = "idle"
  /\ op = "init"
  /\ \E idx \in IdxPolicyArgs :
       LET r == get_arg_indices(idx, arg)
       IN  ret' = [NoRet EXCEPT !.obs = r.indices, !.err = r.err]
  /\ op' = "get_arg_indices"
  /\ UNCHANGED <<config, phys, moving, grasp, saved, states, task, primitive,
                 result, trace, pc, arg, max_attempts, sampled, num_iters,
                 min_iters, max_iters, taken, obsVars, recVars,
                 boxVars>>

\* An environment about to be asked for the rows of some list of arguments.
InitArgs ==
  /\ config = [tracker |-> FALSE, real |-> FALSE]
  /\ phys = InitScene
  /\ moving = FALSE
  /\ grasp = FALSE
  /\ saved = Put(EmptyDict, 0, InitScene)
  /\ states = EmptyDict
  /\ task = 1
  /\ primitive = tasks[1].action_skeleton[1]
  /\ pc = "idle"
  /\ op = "init"
  /\ arg \in ArgLists
  /\ max_attempts = 0
  /\ sampled = {}
  /\ num_iters = 0
  /\ min_iters = 0
  /\ max_iters = 0
  /\ result = NoResult
  /\ ret = NoRet
  /\ trace = << >>
  /\ taken = EmptyDict
  /\ recorder = NewRecorder
  /\ timelapse = NewRecorder
  /\ mode = "none"
  /\ registry = [i \in 1 .. Len(objects) |-> StateVector(objects[i], InitScene)]
  /\ ee_pose = StateVector("TableEnv.robot.arm.ee_pose", InitScene)
  /\ NoBox2D

NextArgs == GetArgIndices

SpecArgs == InitArgs /\ [][NextArgs]_vars

\* The arguments are pairwise distinct objects that have a row of their own.
DistinctRowed(policy_args) ==
  /\ \A a \in 1 .. Len(policy_args) :
       policy_args[a] \in 0 .. MAX_NUM_OBJECTS - 2
  /\ \A a, b \in 1 .. Len(policy_args) :
       a # b => policy_args[a] # policy_args[b]

\* C37: for pairwise distinct arguments with idx_object in
\* 0 .. MAX_NUM_OBJECTS-2, get_arg_indices returns a permutation of
\* 0 .. MAX_NUM_OBJECTS-1: row 0 first, then idx_object+1 of each argument
\* in the given order, then the rows left over in ascending order.
C37_ArgIndicesPermutation ==
  (Returned("get_arg_indices") /\ DistinctRowed(arg)) =>
    LET out == ret.obs
        n == Len(arg)
    IN  /\ ret.err = "none"
        /\ Len(out) = MAX_NUM_OBJECTS
        /\ {out[i] : i \in 1 .. Len(out)} = 0 .. MAX_NUM_OBJECTS - 1
        /\ out[1] = 0
        /\ \A a \in 1 .. n : out[a + 1] = arg[a] + 1
        /\ \A i, j \in n + 2 .. Len(out) : i < j => out[i] < out[j]

\* Two arguments given against their registry order, with rows left over.
C37_Witness ==
  /\ Returned("get_arg_indices")
  /\ arg = <<2, 0>>
  /\ ret.obs = <<0, 3, 1, 2, 4>>

(***************************************************************************)
(* The Box2D episode budget.                                               *)
(***************************************************************************)
\* A PushLeft2D environment as constructed, with any step budget.
InitBox2D ==
  /\ InitEnv
  /\ config = [tracker |-> FALSE, real |-> FALSE]
  /\ registry = [i \in 1 .. Len(objects) |-> StateVector(objects[i], InitScene)]
  /\ ee_pose = StateVector("TableEnv.robot.arm.ee_pose", InitScene)
  /\ steps = NoSteps
  /\ max_episode_steps \in 0 .. MaxEpisodeSteps
  /\ world = NoWorld
  /\ agent = FALSE
  /\ kth = 0

NextBox2D ==
  \/ Box2DResetBegin
  \/ Box2DGenerate
  \/ PushLeft2DStep

SpecBox2D == InitBox2D /\ [][NextBox2D]_vars

\* C38: Box2DBase.reset() clears the step counter and returns only with a
\* world that passed _is_valid(), the counter still 0; each step() after a
\* reset adds exactly one to the counter and reports steps_exceeded exactly
\* when the counter has reached max_episode_steps, so the k-th step after a
\* reset reports it exactly when k >= max_episode_steps; and the done that
\* PushLeft2D.step returns is steps_exceeded or _is_done().
C38_EpisodeBudget ==
  [][/\ op' = "Box2D.reset" => steps' = 0
     /\ (pc = "box2d_reset" /\ pc' = "idle") => is_valid(world')
     /\ (op' = "Box2D.step" /\ agent) =>
          /\ steps' = steps + 1
          /\ kth' = steps'
          /\ Produced(trace', "Box2DBase.step") <=>
               steps' >= max_episode_steps
          /\ Produced(trace', "Box2DBase.step") <=>
               kth' >= max_episode_steps
          /\ ret'.err = "none" =>
               ret'.terminated =
                 (Produced(trace', "Box2DBase.step") \/ is_done(world'))]_vars

\* The step that spends a budget of two, in a world that is not terminal.
C38_Witness ==
  /\ Returned("Box2D.step")
  /\ max_episode_steps = 2
  /\ kth = 2
  /\ ~is_done(world)
  /\ ret.err = "none"
  /\ ret.terminated

(***************************************************************************)
(* OracleEncoder: the encoder that answers with the environment's state.   *)
(***************************************************************************)
\* The observations a caller may hand to the encoder: what the environment
\* shows in some scene, the current one or another.
Observations == {get_observation(s) : s \in Scenes}

\* forward doing what its docstring warns of: ignoring the observation.
forward_ignores_observation(e, observation, id) ==
  get_state_body(Call(e, "get_observation", 0), id)

\* OracleEncoder.forward on one observation, with id the id p.saveState
\* would return.
forward(e, observation, id) ==
  LET e1 == Call(e, "get_observation", 0)
  IN  IF observation # get_observation(e1.phys)
        THEN Return(e1, [NoRet EXCEPT !.err = "ValueError"])
      ELSE get_state_body(e1, id)

OracleForward ==
  /\ pc = "idle"
  /\ Cardinality(DOMAIN states) < MaxStates
  /\ \E observation \in Observations, id \in FreeIds(saved) :
       LET e == forward(Cur, observation, id)
       IN  /\ Commit(e)
           /\ arg' = observation
           /\ taken' = IF e.ret.err = "none"
                         THEN Put(taken, id,
                                  [obs |-> get_observation(phys),
                                   phys |-> phys,
                                   robot |-> robot_get_state(Cur)])
                       ELSE taken
  /\ op' = "OracleEncoder.forward"
  /\ sampled' = {}
  /\ UNCHANGED <<obsVars, recVars, boxVars, config, pc, max_attempts,
                 num_iters, min_iters, max_iters>>

\* The encoder beside the step() that changes what the environment shows.
NextOracle ==
  \/ OracleForward
  \/ step

InitOracle ==
  /\ Init
  /\ config = [tracker |-> FALSE, real |-> FALSE]

SpecOracle == InitOracle /\ [][NextOracle]_vars

====
